---- MODULE Spec2Model ----
(***************************************************************************)
(* ArcaneOS: the daemon registry (app/services/daemon_registry.py), the    *)
(* Raindrop MCP client it drives (app/services/raindrop_client.py), the    *)
(* event bus (ArcaneOS/core/event_bus.py) and the Archon router            *)
(* (ArcaneOS/core/archon_router.py) with the spell parser it falls back to *)
(* (app/services/spell_parser.py).                                         *)
(*                                                                         *)
(* Every handler of the registry and of the router is synchronous Python:  *)
(* it runs to completion without yielding to the event loop, so each is    *)
(* one action.  Coroutines handed to the loop are kept in `tasks` and run  *)
(* later, one action each.                                                 *)
(***************************************************************************)
EXTENDS Integers, Sequences, FiniteSets, TLC

----------------------------------------------------------------------------
(* Bounds of the model *)

\* invocations recorded over all daemons together
MaxInvocations == 2
\* lasting effects of routing (audit lines, route events, invocations) after
\* which no further spell is routed
MaxRouteEffects == 1
\* depth at which the interpreter raises RecursionError (sys.getrecursionlimit)
RecursionLimit == 3
MaxEmits == 102
MaxFanoutEmits == 3
MaxQueues == 2
MaxChannelEmits == 2
MaxHandlerEmits == 2

----------------------------------------------------------------------------
(* Closed sets of the program *)

\* DaemonType, ArcaneOS/core/schemas.py
Daemons == {"claude", "gemini", "liquidmetal"}

\* the websockets that connect to the channel bus, and its channels
Sockets == {"ws1", "ws2"}
Channels == {"route", "spell"}

\* the task strings handed to invoke_daemon directly
Tasks == {<<>>, <<"w", "r", "i", "t", "e", " ", "c", "o", "d", "e">>}

VARIABLES
    is_summoned,        \* Daemon.is_summoned, per daemon
    invocation_count,   \* Daemon.invocation_count, per daemon
    invocation_history, \* DaemonState.invocation_history, per daemon
    mcp_registered,     \* DaemonState.mcp_registered, per daemon
    registered_tools,   \* RaindropMCPClient._registered_tools (its keys)
    event_history,      \* ArcaneEventBus._event_history
    tasks,              \* coroutines scheduled on the event loop, in order
    archon_enabled,     \* settings.archon_enabled
    tool_registered,    \* ArchonRouter._tool_registered
    veil_enabled,       \* VeilState.veil_enabled (fantasy mode)
    audit_log,          \* the REJECTED_PAYLOAD lines of the grimoire file
    response,           \* what the last call returned or raised
    subscribers,        \* core ArcaneEventBus._subscribers (queues)
    queues,             \* the asyncio.Queue objects subscribe() created
    ws_subscribers,     \* channel ArcaneEventBus._subscribers, per channel
    ws_queues,          \* channel ArcaneEventBus._queues (its keys)
    emit_calls,         \* the calls of the channel bus's emit, in call order
    ws_received,        \* the texts each websocket was sent, in order
    handlers            \* the /ws/events handlers, one per queue

vars == <<is_summoned, invocation_count, invocation_history, mcp_registered,
          registered_tools, event_history, tasks, archon_enabled,
          tool_registered, veil_enabled, audit_log, response, subscribers,
          queues, ws_subscribers, ws_queues, emit_calls, ws_received,
          handlers>>

routerVars == <<archon_enabled, tool_registered, veil_enabled, audit_log>>

channelVars == <<ws_subscribers, ws_queues, emit_calls, ws_received>>

fanoutVars == <<subscribers, queues, channelVars, handlers>>

registryVars == <<is_summoned, invocation_count, invocation_history,
                  mcp_registered, registered_tools>>

----------------------------------------------------------------------------
(* The event loop *)

\* _safe_create_task(coro): with no running loop get_running_loop raises
\* RuntimeError, which is caught and the coroutine dropped; with a running
\* loop the function calls ITSELF (line 38) instead of loop.create_task, and
\* recurses until the interpreter raises RecursionError, a subclass of
\* RuntimeError, which the same handler catches.  ts is the loop's task list.
RECURSIVE safe_create_task(_, _, _, _)
safe_create_task(ts, coro, loop, depth) ==
    IF ~loop THEN ts
    ELSE IF depth >= RecursionLimit THEN ts
    ELSE safe_create_task(ts, coro, loop, depth + 1)

\* the coroutine object event_bus.emit_<kind>(daemon_name, success, ...)
EmitCoro(kind, daemon, success) ==
    [spell_name |-> kind, daemon_name |-> daemon, success |-> success]

----------------------------------------------------------------------------
(* RaindropMCPClient *)

\* register_tool: the try body stores the tool and returns True; an
\* exception inside it (fault) is caught and False is returned.
register_tool(tools, tool_name, fault) ==
    IF fault THEN [tools |-> tools, success |-> FALSE]
    ELSE [tools |-> tools \cup {tool_name}, success |-> TRUE]

\* unregister_tool: deletes the tool when present.
unregister_tool(tools, tool_name) == tools \ {tool_name}

\* a client without the try/except around the backing call
invoke_tool_propagates(tools, tool_name, capRaises) ==
    IF tool_name \notin tools \/ capRaises
    THEN [raised |-> TRUE,  called |-> tool_name \in tools, success |-> FALSE]
    ELSE [raised |-> FALSE, called |-> TRUE, success |-> TRUE]

\* invoke_tool: ValueError for an unregistered tool, raised before the try;
\* otherwise the backing call runs inside try/except and an exception of it
\* (capRaises) becomes MCPToolResult(success=False).
invoke_tool(tools, tool_name, capRaises) ==
    IF tool_name \notin tools
    THEN [raised |-> TRUE,  called |-> FALSE, success |-> FALSE]
    ELSE [raised |-> FALSE, called |-> TRUE,  success |-> ~capRaises]

----------------------------------------------------------------------------
(* Text.  A string is a sequence of one-character strings; a spell is a    *)
(* sequence of tokens, the blank-separated pieces of the trimmed text.     *)
(* Tokens here are letters, optionally followed by one "," or ":".         *)

Uppers == <<"A","B","C","D","E","F","G","H","I","J","K","L","M",
            "N","O","P","Q","R","S","T","U","V","W","X","Y","Z">>
Lowers == <<"a","b","c","d","e","f","g","h","i","j","k","l","m",
            "n","o","p","q","r","s","t","u","v","w","x","y","z">>

\* str.lower() on one character
LowerChar(c) ==
    IF \E i \in DOMAIN Uppers : Uppers[i] = c
    THEN Lowers[CHOOSE i \in DOMAIN Uppers : Uppers[i] = c]
    ELSE c

\* str.lower()
LowerStr(str) == [i \in DOMAIN str |-> LowerChar(str[i])]

\* the regex class \w on the characters of the vocabulary
IsWordChar(c) ==
    \/ \E i \in DOMAIN Uppers : Uppers[i] = c \/ Lowers[i] = c
    \/ c = "_"

\* `a in b` on strings
Contains(b, a) ==
    \E i \in 0 .. (Len(b) - Len(a)) :
        \A k \in 1 .. Len(a) : b[i + k] = a[k]

StartsWith(str, pre) ==
    /\ Len(pre) <= Len(str)
    /\ \A k \in 1 .. Len(pre) : str[k] = pre[k]

EndsWith(str, suf) ==
    /\ Len(suf) <= Len(str)
    /\ \A k \in 1 .. Len(suf) : str[Len(str) - Len(suf) + k] = suf[k]

\* the longest prefix of \w characters
RECURSIVE WordPrefix(_)
WordPrefix(str) ==
    IF str = <<>> \/ ~IsWordChar(Head(str)) THEN <<>>
    ELSE <<Head(str)>> \o WordPrefix(Tail(str))

\* " ".join(tokens)
RECURSIVE JoinTokens(_)
JoinTokens(toks) ==
    IF toks = <<>> THEN <<>>
    ELSE IF Len(toks) = 1 THEN toks[1]
    ELSE toks[1] \o <<" ">> \o JoinTokens(Tail(toks))

\* str.strip(chars)
RECURSIVE StripLeft(_, _)
StripLeft(str, chars) ==
    IF str # <<>> /\ Head(str) \in chars THEN StripLeft(Tail(str), chars)
    ELSE str
RECURSIVE StripRight(_, _)
StripRight(str, chars) ==
    IF str # <<>> /\ str[Len(str)] \in chars
    THEN StripRight(SubSeq(str, 1, Len(str) - 1), chars)
    ELSE str
Strip(str, chars) == StripRight(StripLeft(str, chars), chars)

\* the words of the patterns and of the spells checked
Lit ==
    [invoke |-> <<"i", "n", "v", "o", "k", "e">>,
     ask |-> <<"a", "s", "k">>,
     tell |-> <<"t", "e", "l", "l">>,
     command |-> <<"c", "o", "m", "m", "a", "n", "d">>,
     to |-> <<"t", "o">>,
     for |-> <<"f", "o", "r">>,
     summon |-> <<"s", "u", "m", "m", "o", "n">>,
     the |-> <<"t", "h", "e">>,
     daemon |-> <<"d", "a", "e", "m", "o", "n">>,
     call |-> <<"c", "a", "l", "l">>,
     forth |-> <<"f", "o", "r", "t", "h">>,
     materialize |-> <<"m", "a", "t", "e", "r", "i", "a", "l", "i", "z", "e">>,
     awaken |-> <<"a", "w", "a", "k", "e", "n">>,
     bring |-> <<"b", "r", "i", "n", "g">>,
     life |-> <<"l", "i", "f", "e">>,
     banish |-> <<"b", "a", "n", "i", "s", "h">>,
     dismiss |-> <<"d", "i", "s", "m", "i", "s", "s">>,
     send |-> <<"s", "e", "n", "d">>,
     back |-> <<"b", "a", "c", "k">>,
     release |-> <<"r", "e", "l", "e", "a", "s", "e">>,
     show |-> <<"s", "h", "o", "w">>,
     me |-> <<"m", "e">>,
     all |-> <<"a", "l", "l">>,
     list |-> <<"l", "i", "s", "t">>,
     what |-> <<"w", "h", "a", "t">>,
     are |-> <<"a", "r", "e">>,
     active |-> <<"a", "c", "t", "i", "v", "e">>,
     status |-> <<"s", "t", "a", "t", "u", "s">>,
     of |-> <<"o", "f">>,
     check |-> <<"c", "h", "e", "c", "k">>,
     on |-> <<"o", "n">>,
     claude |-> <<"c", "l", "a", "u", "d", "e">>,
     Claude |-> <<"C", "l", "a", "u", "d", "e">>,
     gemini |-> <<"g", "e", "m", "i", "n", "i">>,
     liquidmetal |-> <<"l", "i", "q", "u", "i", "d", "m", "e", "t", "a", "l">>,
     oracle |-> <<"o", "r", "a", "c", "l", "e">>,
     write |-> <<"w", "r", "i", "t", "e">>,
     code |-> <<"c", "o", "d", "e">>,
     hello |-> <<"h", "e", "l", "l", "o">>,
     world |-> <<"w", "o", "r", "l", "d">>,
     logic |-> <<"l", "o", "g", "i", "c">>,
     keeper |-> <<"k", "e", "e", "p", "e", "r">>,
     resummon |-> <<"r", "e", "s", "u", "m", "m", "o", "n">>]

----------------------------------------------------------------------------
(* SpellParser *)

\* the values of DaemonType as strings of characters
DaemonChars ==
    [claude |-> <<"c", "l", "a", "u", "d", "e">>,
     gemini |-> <<"g", "e", "m", "i", "n", "i">>,
     liquidmetal |-> <<"l", "i", "q", "u", "i", "d", "m", "e", "t", "a", "l">>]

\* SpellParser.DAEMON_ALIASES, in dict order
DAEMON_ALIASES ==
    <<[canonical |-> "claude",
       aliases |-> <<<<"c", "l", "a", "u", "d", "e">>,
                     <<"l", "o", "g", "i", "c", " ", "k", "e", "e", "p", "e", "r">>,
                     <<"r", "e", "a", "s", "o", "n", "e", "r">>,
                     <<"a", "n", "a", "l", "y", "z", "e", "r">>>>],
      [canonical |-> "gemini",
       aliases |-> <<<<"g", "e", "m", "i", "n", "i">>,
                     <<"c", "r", "e", "a", "t", "i", "v", "e">>,
                     <<"i", "n", "n", "o", "v", "a", "t", "o", "r">>,
                     <<"d", "r", "e", "a", "m", "e", "r">>>>],
      [canonical |-> "liquidmetal",
       aliases |-> <<<<"l", "i", "q", "u", "i", "d", "m", "e", "t", "a", "l">>,
                     <<"l", "i", "q", "u", "i", "d", " ", "m", "e", "t", "a", "l">>,
                     <<"t", "r", "a", "n", "s", "f", "o", "r", "m", "e", "r">>,
                     <<"s", "h", "a", "p", "e", "s", "h", "i", "f", "t", "e", "r">>>>]>>

\* SpellParser._initialize_patterns, lines 206-239, in registration order.
\* Each regex is its elements, separated by \s+ :
\*   lit    the word w                     lit_s  the word w, "s" optional
\*   opt    (?:w\s+)?                      word   (\w+) bound to field f
\*   wordp  (\w+) followed by the char p   rest   (.+) bound to field f
\* anchored is the leading ^.  The trailing (?:\s+daemon)? of two patterns
\* binds nothing and never decides a match, so it has no element.
RegisteredPatterns ==
    <<[id |-> 1, action |-> "invoke", priority |-> 100, anchored |-> FALSE,
       elems |-> <<[k |-> "lit", w |-> Lit.invoke, f |-> "", p |-> ""],
                   [k |-> "word", w |-> <<>>, f |-> "daemon", p |-> ""],
                   [k |-> "lit", w |-> Lit.to, f |-> "", p |-> ""],
                   [k |-> "rest", w |-> <<>>, f |-> "task", p |-> ""]>>],
      [id |-> 2, action |-> "invoke", priority |-> 95, anchored |-> FALSE,
       elems |-> <<[k |-> "lit", w |-> Lit.ask, f |-> "", p |-> ""],
                   [k |-> "word", w |-> <<>>, f |-> "daemon", p |-> ""],
                   [k |-> "lit", w |-> Lit.to, f |-> "", p |-> ""],
                   [k |-> "rest", w |-> <<>>, f |-> "task", p |-> ""]>>],
      [id |-> 3, action |-> "invoke", priority |-> 95, anchored |-> FALSE,
       elems |-> <<[k |-> "lit", w |-> Lit.tell, f |-> "", p |-> ""],
                   [k |-> "word", w |-> <<>>, f |-> "daemon", p |-> ""],
                   [k |-> "lit", w |-> Lit.to, f |-> "", p |-> ""],
                   [k |-> "rest", w |-> <<>>, f |-> "task", p |-> ""]>>],
      [id |-> 4, action |-> "invoke", priority |-> 90, anchored |-> FALSE,
       elems |-> <<[k |-> "lit", w |-> Lit.command, f |-> "", p |-> ""],
                   [k |-> "wordp", w |-> <<>>, f |-> "daemon", p |-> ":"],
                   [k |-> "rest", w |-> <<>>, f |-> "task", p |-> ""]>>],
      [id |-> 5, action |-> "invoke", priority |-> 50, anchored |-> TRUE,
       elems |-> <<[k |-> "wordp", w |-> <<>>, f |-> "daemon", p |-> ","],
                   [k |-> "rest", w |-> <<>>, f |-> "task", p |-> ""]>>],
      [id |-> 6, action |-> "invoke", priority |-> 85, anchored |-> FALSE,
       elems |-> <<[k |-> "lit", w |-> Lit.invoke, f |-> "", p |-> ""],
                   [k |-> "word", w |-> <<>>, f |-> "daemon", p |-> ""],
                   [k |-> "lit", w |-> Lit.for, f |-> "", p |-> ""],
                   [k |-> "rest", w |-> <<>>, f |-> "task", p |-> ""]>>],
      [id |-> 7, action |-> "summon", priority |-> 80, anchored |-> FALSE,
       elems |-> <<[k |-> "lit", w |-> Lit.summon, f |-> "", p |-> ""],
                   [k |-> "opt", w |-> Lit.the, f |-> "", p |-> ""],
                   [k |-> "word", w |-> <<>>, f |-> "daemon", p |-> ""]>>],
      [id |-> 8, action |-> "summon", priority |-> 75, anchored |-> FALSE,
       elems |-> <<[k |-> "lit", w |-> Lit.call, f |-> "", p |-> ""],
                   [k |-> "lit", w |-> Lit.forth, f |-> "", p |-> ""],
                   [k |-> "opt", w |-> Lit.the, f |-> "", p |-> ""],
                   [k |-> "word", w |-> <<>>, f |-> "daemon", p |-> ""]>>],
      [id |-> 9, action |-> "summon", priority |-> 75, anchored |-> FALSE,
       elems |-> <<[k |-> "lit", w |-> Lit.materialize, f |-> "", p |-> ""],
                   [k |-> "opt", w |-> Lit.the, f |-> "", p |-> ""],
                   [k |-> "word", w |-> <<>>, f |-> "daemon", p |-> ""]>>],
      [id |-> 10, action |-> "summon", priority |-> 75, anchored |-> FALSE,
       elems |-> <<[k |-> "lit", w |-> Lit.awaken, f |-> "", p |-> ""],
                   [k |-> "opt", w |-> Lit.the, f |-> "", p |-> ""],
                   [k |-> "word", w |-> <<>>, f |-> "daemon", p |-> ""]>>],
      [id |-> 11, action |-> "summon", priority |-> 70, anchored |-> FALSE,
       elems |-> <<[k |-> "lit", w |-> Lit.bring, f |-> "", p |-> ""],
                   [k |-> "opt", w |-> Lit.the, f |-> "", p |-> ""],
                   [k |-> "word", w |-> <<>>, f |-> "daemon", p |-> ""],
                   [k |-> "lit", w |-> Lit.to, f |-> "", p |-> ""],
                   [k |-> "lit", w |-> Lit.life, f |-> "", p |-> ""]>>],
      [id |-> 12, action |-> "banish", priority |-> 80, anchored |-> FALSE,
       elems |-> <<[k |-> "lit", w |-> Lit.banish, f |-> "", p |-> ""],
                   [k |-> "opt", w |-> Lit.the, f |-> "", p |-> ""],
                   [k |-> "word", w |-> <<>>, f |-> "daemon", p |-> ""]>>],
      [id |-> 13, action |-> "banish", priority |-> 75, anchored |-> FALSE,
       elems |-> <<[k |-> "lit", w |-> Lit.dismiss, f |-> "", p |-> ""],
                   [k |-> "opt", w |-> Lit.the, f |-> "", p |-> ""],
                   [k |-> "word", w |-> <<>>, f |-> "daemon", p |-> ""]>>],
      [id |-> 14, action |-> "banish", priority |-> 75, anchored |-> FALSE,
       elems |-> <<[k |-> "lit", w |-> Lit.send, f |-> "", p |-> ""],
                   [k |-> "opt", w |-> Lit.the, f |-> "", p |-> ""],
                   [k |-> "word", w |-> <<>>, f |-> "daemon", p |-> ""],
                   [k |-> "lit", w |-> Lit.back, f |-> "", p |-> ""]>>],
      [id |-> 15, action |-> "banish", priority |-> 70, anchored |-> FALSE,
       elems |-> <<[k |-> "lit", w |-> Lit.release, f |-> "", p |-> ""],
                   [k |-> "opt", w |-> Lit.the, f |-> "", p |-> ""],
                   [k |-> "word", w |-> <<>>, f |-> "daemon", p |-> ""]>>],
      [id |-> 16, action |-> "query", priority |-> 95, anchored |-> TRUE,
       elems |-> <<[k |-> "lit", w |-> Lit.show, f |-> "", p |-> ""],
                   [k |-> "opt", w |-> Lit.me, f |-> "", p |-> ""],
                   [k |-> "opt", w |-> Lit.all, f |-> "", p |-> ""],
                   [k |-> "opt", w |-> Lit.the, f |-> "", p |-> ""],
                   [k |-> "lit_s", w |-> Lit.daemon, f |-> "", p |-> ""]>>],
      [id |-> 17, action |-> "query", priority |-> 95, anchored |-> TRUE,
       elems |-> <<[k |-> "lit", w |-> Lit.list, f |-> "", p |-> ""],
                   [k |-> "opt", w |-> Lit.all, f |-> "", p |-> ""],
                   [k |-> "opt", w |-> Lit.the, f |-> "", p |-> ""],
                   [k |-> "lit_s", w |-> Lit.daemon, f |-> "", p |-> ""]>>],
      [id |-> 18, action |-> "query", priority |-> 90, anchored |-> TRUE,
       elems |-> <<[k |-> "lit", w |-> Lit.what, f |-> "", p |-> ""],
                   [k |-> "lit_s", w |-> Lit.daemon, f |-> "", p |-> ""],
                   [k |-> "opt", w |-> Lit.are, f |-> "", p |-> ""],
                   [k |-> "lit", w |-> Lit.active, f |-> "", p |-> ""]>>],
      [id |-> 19, action |-> "query", priority |-> 65, anchored |-> FALSE,
       elems |-> <<[k |-> "lit", w |-> Lit.status, f |-> "", p |-> ""],
                   [k |-> "lit", w |-> Lit.of, f |-> "", p |-> ""],
                   [k |-> "opt", w |-> Lit.the, f |-> "", p |-> ""],
                   [k |-> "rest", w |-> <<>>, f |-> "daemon", p |-> ""]>>],
      [id |-> 20, action |-> "query", priority |-> 60, anchored |-> FALSE,
       elems |-> <<[k |-> "lit", w |-> Lit.check, f |-> "", p |-> ""],
                   [k |-> "opt", w |-> Lit.on, f |-> "", p |-> ""],
                   [k |-> "opt", w |-> Lit.the, f |-> "", p |-> ""],
                   [k |-> "rest", w |-> <<>>, f |-> "daemon", p |-> ""]>>]>>

\* list.sort(key=priority, reverse=True), line 242: stable, so patterns of
\* equal priority keep their registration order
RECURSIVE InsertByPriority(_, _)
InsertByPriority(sorted, p) ==
    IF sorted = <<>> THEN <<p>>
    ELSE IF Head(sorted).priority >= p.priority
         THEN <<Head(sorted)>> \o InsertByPriority(Tail(sorted), p)
         ELSE <<p>> \o sorted
RECURSIVE SortByPriority(_)
SortByPriority(ps) ==
    IF ps = <<>> THEN <<>>
    ELSE InsertByPriority(SortByPriority(SubSeq(ps, 1, Len(ps) - 1)),
                          ps[Len(ps)])

\* the patterns left in registration order
patterns_unsorted == RegisteredPatterns

\* self.patterns after __init__
patterns == SortByPriority(RegisteredPatterns)

\* no match (None), and the fields bound so far; <<>> is an unbound field
NoMatch  == [ok |-> FALSE, daemon |-> <<>>, task |-> <<>>]
NoFields == [ok |-> TRUE,  daemon |-> <<>>, task |-> <<>>]

\* match_obj.group(i).strip() stored under its field when non-empty
Bind(caps, f, value) ==
    LET v == Strip(value, {" "})
    IN  IF v = <<>> THEN caps
        ELSE IF f = "daemon" THEN [caps EXCEPT !.daemon = v]
        ELSE [caps EXCEPT !.task = v]

\* one literal against one token, re.IGNORECASE.  The first literal of an
\* unanchored pattern may begin inside the token, the last element may end
\* inside it; \s+ on a side pins that side to the token's edge.
LitMatches(w, tok, floatLeft, floatRight) ==
    LET t == LowerStr(tok)
    IN  IF floatLeft /\ floatRight THEN Contains(t, w)
        ELSE IF floatLeft THEN EndsWith(t, w)
        ELSE IF floatRight THEN StartsWith(t, w)
        ELSE t = w

\* re.search of one pattern from token j on: the elements k.. against the
\* tokens j.., greedy with backtracking over the optional groups
RECURSIVE MatchElems(_, _, _, _, _)
MatchElems(pat, k, toks, j, caps) ==
    IF k > Len(pat.elems) THEN caps
    ELSE
    LET e     == pat.elems[k]
        last  == (k = Len(pat.elems))
        float == (k = 1 /\ ~pat.anchored)
        has   == j <= Len(toks)
    IN
    IF e.k = "opt" THEN
        LET taken == IF has /\ LowerStr(toks[j]) = e.w
                     THEN MatchElems(pat, k + 1, toks, j + 1, caps)
                     ELSE NoMatch
        IN  IF taken.ok THEN taken
            ELSE MatchElems(pat, k + 1, toks, j, caps)
    ELSE IF ~has THEN NoMatch
    ELSE IF e.k = "lit" THEN
        IF LitMatches(e.w, toks[j], float, last)
        THEN MatchElems(pat, k + 1, toks, j + 1, caps)
        ELSE NoMatch
    ELSE IF e.k = "lit_s" THEN
        IF \/ LitMatches(e.w, toks[j], float, last)
           \/ LitMatches(e.w \o <<"s">>, toks[j], float, last)
        THEN MatchElems(pat, k + 1, toks, j + 1, caps)
        ELSE NoMatch
    ELSE IF e.k = "word" THEN
        LET w == WordPrefix(toks[j])
        IN  IF w # <<>> /\ (last \/ w = toks[j])
            THEN MatchElems(pat, k + 1, toks, j + 1, Bind(caps, e.f, w))
            ELSE NoMatch
    ELSE IF e.k = "wordp" THEN
        LET w == WordPrefix(toks[j])
        IN  IF w # <<>> /\ toks[j] = w \o <<e.p>>
            THEN MatchElems(pat, k + 1, toks, j + 1, Bind(caps, e.f, w))
            ELSE NoMatch
    ELSE \* "rest": (.+) runs to the end of the text
        Bind(caps, e.f, JoinTokens(SubSeq(toks, j, Len(toks))))

\* the leftmost start at which the pattern matches
RECURSIVE SearchFrom(_, _, _)
SearchFrom(pat, toks, j) ==
    IF j > Len(toks) THEN NoMatch
    ELSE LET m == MatchElems(pat, 1, toks, j, NoFields)
         IN  IF m.ok THEN m
             ELSE IF pat.anchored THEN NoMatch
             ELSE SearchFrom(pat, toks, j + 1)

\* SpellPattern.match, lines 142-155
Match(pat, toks) == SearchFrom(pat, toks, 1)

\* normalize_daemon_name, lines 255-258: the exact alias, in dict order
RECURSIVE ExactAlias(_, _)
ExactAlias(name, i) ==
    IF i > Len(DAEMON_ALIASES) THEN <<>>
    ELSE IF \E a \in DOMAIN DAEMON_ALIASES[i].aliases :
                DAEMON_ALIASES[i].aliases[a] = name
         THEN DaemonChars[DAEMON_ALIASES[i].canonical]
         ELSE ExactAlias(name, i + 1)

\* normalize_daemon_name, lines 260-263: the partial match, in dict order
RECURSIVE PartialAlias(_, _)
PartialAlias(name, i) ==
    IF i > Len(DAEMON_ALIASES) THEN <<>>
    ELSE IF \E a \in DOMAIN DAEMON_ALIASES[i].aliases :
                \/ Contains(name, DAEMON_ALIASES[i].aliases[a])
                \/ Contains(DAEMON_ALIASES[i].aliases[a], name)
         THEN DaemonChars[DAEMON_ALIASES[i].canonical]
         ELSE PartialAlias(name, i + 1)

\* a normalization that compares the name as it was written
normalize_keeps_case(raw_name) ==
    LET name   == Strip(raw_name, {" "})
        exact  == ExactAlias(name, 1)
    IN  IF exact # <<>> THEN exact ELSE name

\* SpellParser.normalize_daemon_name
normalize_daemon_name(raw_name) ==
    LET name_lower == Strip(LowerStr(raw_name), {" "})
        exact   == ExactAlias(name_lower, 1)
        partial == PartialAlias(name_lower, 1)
    IN  IF exact # <<>> THEN exact
        ELSE IF partial # <<>> THEN partial
        ELSE name_lower

\* extract_parameters, lines 283-308, on a task that holds no "=": no
\* parameter is found and the task is stripped of blanks, "," and ";"
extract_parameters(task_description) ==
    Strip(task_description, {" ", ",", ";"})

\* the text could not be parsed (ParseError)
ParseFailure ==
    [ok |-> FALSE, action |-> "none", daemon |-> <<>>, task |-> <<>>,
     confidence |-> 0, rule |-> 0]

\* parse, lines 329-353: the first pattern of self.patterns that matches
RECURSIVE FirstMatch(_, _, _)
FirstMatch(pats, i, toks) ==
    IF i > Len(pats) THEN ParseFailure
    ELSE LET m == Match(pats[i], toks)
         IN  IF m.ok
             THEN [ok |-> TRUE,
                   action |-> pats[i].action,
                   daemon |-> IF m.daemon # <<>>
                              THEN normalize_daemon_name(m.daemon) ELSE <<>>,
                   task |-> IF m.task # <<>>
                            THEN extract_parameters(m.task) ELSE <<>>,
                   confidence |-> IF pats[i].priority < 100
                                  THEN pats[i].priority ELSE 100,
                   rule |-> pats[i].id]
             ELSE FirstMatch(pats, i + 1, toks)

\* SpellParser.parse; a confidence is in hundredths (60 is 0.6)
parse(toks) ==
    IF toks = <<>> THEN ParseFailure
    ELSE FirstMatch(patterns, 1, toks)

\* DaemonType(value) on a name: the member of that value, None ("none") on
\* ValueError
DaemonType(value) == IF value \in Daemons THEN value ELSE "none"

\* DaemonType(value) on the characters the parser extracted
DaemonTypeOf(value) ==
    IF \E d \in Daemons : DaemonChars[d] = value
    THEN CHOOSE d \in Daemons : DaemonChars[d] = value
    ELSE "none"

----------------------------------------------------------------------------
(* core/safety.py: the validator of planner directives *)

\* the texts the planner's directives are made of
TxtSummonAnalytics ==
    <<"S", "u", "m", "m", "o", "n", " ", "a", "n", "a", "l", "y", "t", "i",
    "c", "s">>
TxtChannelLink ==
    <<"C", "h", "a", "n", "n", "e", "l", " ", "s", "p", "e", "c", "t", "r",
    "a", "l", " ", "l", "i", "n", "k">>
TxtCompileDiagnostics ==
    <<"C", "o", "m", "p", "i", "l", "e", " ", "d", "i", "a", "g", "n", "o",
    "s", "t", "i", "c", "s">>
TxtInspectLog ==
    <<"I", "n", "s", "p", "e", "c", "t", " ", "/", "v", "a", "r", "/", "l",
    "o", "g", "/", "a", "p", "p", ".", "l", "o", "g">>
TxtReportFindings ==
    <<"R", "e", "p", "o", "r", "t", " ", "f", "i", "n", "d", "i", "n", "g",
    "s">>
TxtRunShell ==
    <<"R", "u", "n", " ", "s", "h", "e", "l", "l", " ", "c", "o", "m", "m",
    "a", "n", "d">>
TxtOpenShell ==
    <<"O", "p", "e", "n", " ", "S", "h", "e", "l", "l", " ", "a", "n", "d",
    " ", "e", "x", "e", "c", "u", "t", "e">>
TxtShell ==
    <<"s", "h", "e", "l", "l">>
TxtRedacted ==
    <<"[", "p", "a", "t", "h", "-", "r", "e", "d", "a", "c", "t", "e", "d",
    "]">>
TxtSimpleBudget ==
    <<"L", "a", "t", "e", "n", "c", "y", " ", "e", "x", "c", "e", "e", "d",
    "e", "d", " ", "s", "i", "m", "p", "l", "e", " ", "b", "u", "d", "g",
    "e", "t", ";", " ", "r", "e", "r", "o", "u", "t", "i", "n", "g", " ",
    "t", "o", " ", "L", "i", "q", "u", "i", "d", "M", "e", "t", "a", "l",
    ".">>
TxtCodegenBudget ==
    <<"C", "o", "d", "e", "g", "e", "n", " ", "l", "a", "t", "e", "n", "c",
    "y", " ", "t", "o", "o", " ", "h", "i", "g", "h", ";", " ", "d", "e",
    "l", "e", "g", "a", "t", "i", "n", "g", " ", "t", "o", " ", "L", "i",
    "q", "u", "i", "d", "M", "e", "t", "a", "l", " ", "s", "u", "m", "m",
    "a", "r", "y", ".">>
TxtNoSafePath ==
    <<"N", "o", " ", "s", "a", "f", "e", " ", "e", "x", "e", "c", "u", "t",
    "i", "o", "n", " ", "p", "a", "t", "h", " ", "p", "r", "o", "v", "i",
    "d", "e", "d", ".">>

Letters == {Uppers[i] : i \in DOMAIN Uppers} \cup {Lowers[i] : i \in DOMAIN Lowers}

\* [^\s]+ from position i: the index one past the run of non-blank characters
RECURSIVE RunEnd(_, _)
RunEnd(str, i) ==
    IF i > Len(str) \/ str[i] = " " THEN i ELSE RunEnd(str, i + 1)

\* REDACT_PATTERN, line 14, tried at position i: the index one past the
\* match, or 0 when neither alternative matches there
RedactMatchEnd(str, i) ==
    LET drive == /\ i + 3 <= Len(str)
                 /\ str[i] \in Letters
                 /\ str[i + 1] = ":"
                 /\ str[i + 2] = "\\"
                 /\ str[i + 3] # " "
        slash == /\ i + 1 <= Len(str)
                 /\ str[i] = "/"
                 /\ str[i + 1] # " "
    IN  IF drive THEN RunEnd(str, i + 3)
        ELSE IF slash THEN RunEnd(str, i + 1)
        ELSE 0

\* _redact_paths, lines 47-48: REDACT_PATTERN.sub("[path-redacted]", text)
RECURSIVE RedactFrom(_, _)
RedactFrom(str, i) ==
    IF i > Len(str) THEN <<>>
    ELSE LET e == RedactMatchEnd(str, i)
         IN  IF e > 0 THEN TxtRedacted \o RedactFrom(str, e)
             ELSE <<str[i]>> \o RedactFrom(str, i + 1)

redact_paths(text) == RedactFrom(text, 1)

\* ArchonDirective, lines 27-35
Intents == {"summon", "invoke", "banish", "reveal"}
DaemonNames == Daemons \cup {"none"}
MaxTaskLength == 140

\* the planner's JSON object; absent keys are flagged, and "absent" stands
\* for a parameters or reasoning key the object does not have
Payload(intent, daemon, task, plan, has_safety, allow_shell, fantasy) ==
    [intent |-> intent, daemon |-> daemon, task |-> task, plan |-> plan,
     has_safety |-> has_safety, has_style |-> TRUE,
     allow_shell |-> allow_shell, fantasy |-> fantasy,
     parameters |-> "absent", reasoning |-> "absent"]

NoPayload == Payload("none", "none", <<>>, <<>>, FALSE, FALSE, FALSE)

\* ArchonDirective.parse_obj(payload), line 53: the schema accepts the payload
schema_accepts(payload) ==
    /\ payload.intent \in Intents
    /\ payload.daemon \in DaemonNames
    /\ Len(Strip(payload.task, {" "})) <= MaxTaskLength
    /\ payload.has_safety
    /\ payload.has_style
    /\ Len(payload.plan) >= 1
    /\ \A i \in 1..Len(payload.plan) : Strip(payload.plan[i], {" "}) # <<>>

\* a scan for "shell" that does not fold the letter case
mentions_shell_exact(task, plan) ==
    \/ Contains(task, TxtShell)
    \/ \E i \in 1..Len(plan) : Contains(plan[i], TxtShell)

\* lines 59-60: "shell" in text.lower() for the task or a plan step
mentions_shell(task, plan) ==
    \/ Contains(LowerStr(task), TxtShell)
    \/ \E i \in 1..Len(plan) : Contains(LowerStr(plan[i]), TxtShell)

\* a directive that keeps the keys the schema does not declare
parse_obj_keeps_extras(payload) ==
    [payload EXCEPT
        !.task = Strip(@, {" "}),
        !.plan = [i \in 1..Len(@) |-> Strip(@[i], {" "})],
        !.parameters = IF @ = "absent" THEN "None" ELSE @]

\* ArchonDirective.parse_obj(payload), line 53, on a payload the schema
\* accepts: text fields are stripped, the optional parameters default to
\* None, and a key the schema does not declare (reasoning) is dropped
parse_obj(payload) ==
    [payload EXCEPT
        !.task = Strip(@, {" "}),
        !.plan = [i \in 1..Len(@) |-> Strip(@[i], {" "})],
        !.parameters = IF @ = "absent" THEN "None" ELSE @,
        !.reasoning = "absent"]

\* a cleaning step that leaves the style block alone out of fantasy mode
clean_keeps_style(directive, fantasy_mode) ==
    IF fantasy_mode
    THEN [directive EXCEPT
             !.plan = [i \in 1..Len(@) |-> redact_paths(@[i])]]
    ELSE directive

\* lines 64-72: directive.dict(), redacted in fantasy mode and with
\* style.fantasy forced to False out of it
clean_directive(directive, fantasy_mode) ==
    IF fantasy_mode
    THEN [directive EXCEPT
             !.plan = [i \in 1..Len(@) |-> redact_paths(@[i])]]
    ELSE [directive EXCEPT !.fantasy = FALSE]

Rejected(reason) == [ok |-> FALSE, reason |-> reason, cleaned |-> NoPayload]

\* a logger that records rejections by the content policy only
log_policy_rejections_only(log, reason, payload) ==
    IF reason = "schema_validation_error" THEN log
    ELSE Append(log, [event |-> "REJECTED_PAYLOAD", reason |-> reason,
                      payload |-> payload])

\* _log_rejection, lines 37-44: one line with the reason and the payload as
\* it was received, appended to the grimoire file
log_rejection(log, reason, payload) ==
    Append(log, [event |-> "REJECTED_PAYLOAD", reason |-> reason,
                 payload |-> payload])

\* a validator that applies the shell policy in fantasy mode only
validate_shell_policy_in_fantasy_only(payload, fantasy_mode) ==
    LET directive == parse_obj(payload)
    IN  IF ~schema_accepts(payload) THEN Rejected("schema_validation_error")
        ELSE IF /\ fantasy_mode
                /\ ~directive.allow_shell
                /\ mentions_shell(directive.task, directive.plan)
        THEN Rejected("shell_command_disallowed")
        ELSE [ok |-> TRUE, reason |-> "none",
              cleaned |-> clean_directive(directive, fantasy_mode)]

\* validate_archon_payload, lines 51-72: the cleaned directive, or the
\* reason of the rejection that is logged before ValueError is raised
validate_archon_payload(payload, fantasy_mode) ==
    LET directive == parse_obj(payload)
    IN  IF ~schema_accepts(payload) THEN Rejected("schema_validation_error")
        ELSE IF /\ ~directive.allow_shell
                /\ mentions_shell(directive.task, directive.plan)
        THEN Rejected("shell_command_disallowed")
        ELSE [ok |-> TRUE, reason |-> "none",
              cleaned |-> clean_directive(directive, fantasy_mode)]

----------------------------------------------------------------------------
(* What a call hands back to its caller *)

\* ArchonDecision placeholder of calls that build no decision
NoDecision ==
    [intent |-> "none", target |-> "none", task |-> <<>>, plan |-> <<>>,
     confidence |-> -1, fallback_used |-> FALSE, source |-> "none",
     raw_confidence |-> -1, parameters |-> "None", narration |-> "",
     reasoning |-> "", raw |-> NoPayload]

\* status is the HTTP status: 200 for a returned result, else the
\* HTTPException's status_code, with the error it stands for.  mcp_calls
\* counts the invoke_tool calls made on the daemon's tool, planner_calls
\* those made on the archon tool; planner tells how _generate_decision's
\* planner branch ended; detail is the plan an HTTPException(422) carries.
Resp(op, daemon, status, error, success, num) ==
    [op |-> op, daemon |-> daemon, status |-> status, error |-> error,
     success |-> success, invocation_number |-> num,
     total_invocations |-> 0, mcp_calls |-> 0, planner_calls |-> 0,
     planner |-> "none", decision |-> NoDecision, detail |-> <<>>]

InitResponse == Resp("init", "none", 200, "none", TRUE, 0)

----------------------------------------------------------------------------
(* DaemonRegistry *)

TotalInvocations ==
    Len(invocation_history["claude"]) + Len(invocation_history["gemini"])
        + Len(invocation_history["liquidmetal"])

\* a summon that never rejects: the guard of lines 281-285 left out
summon_never_rejects(summoned, w) == FALSE

\* summon, lines 281-285: the guard that rejects a second summon
summon_rejects(summoned, w) == summoned[w]

\* a ritual that forgets to reset the counter
ritual_keeps_count(summoned, counts, w) ==
    [summoned |-> [summoned EXCEPT ![w] = TRUE], counts |-> counts]

\* summon, lines 288-289: the summoning ritual
summoning_ritual(summoned, counts, w) ==
    [summoned |-> [summoned EXCEPT ![w] = TRUE],
     counts   |-> [counts EXCEPT ![w] = 0]]

\* a registry that takes every daemon for summoned
slumbers_never(summoned, w) == FALSE

\* invoke_daemon, line 419 and banish_daemon, line 586: the daemon slumbers
slumbers(summoned, w) == ~summoned[w]

\* a history that keeps successful invocations only
record_successes_only(history, task, success) ==
    IF success THEN Append(history, [task |-> task, success |-> success])
    ELSE history

\* DaemonState.record_invocation, lines 67-73
record_invocation(history, task, success) ==
    Append(history, [task |-> task, success |-> success])

\* an increment written from a count read before the daemon's first invoke
bump_from_stale_read(count) == 1

\* invoke_daemon, line 440
bump_invocation_count(count) == count + 1

\* DaemonState.get_statistics, line 82
total_invocations(history) == Len(history)

\* DaemonRegistry.summon
Summon(w, loop, fault) ==
    IF summon_rejects(is_summoned, w)
    THEN /\ UNCHANGED registryVars
         /\ tasks' = safe_create_task(tasks, EmitCoro("summon", w, FALSE), loop, 0)
         /\ response' = Resp("summon", w, 400, "already_summoned", FALSE, 0)
    ELSE LET rit == summoning_ritual(is_summoned, invocation_count, w)
             reg == register_tool(registered_tools, w, fault)
             regFails == ~mcp_registered[w] /\ ~reg.success
         IN  /\ is_summoned' = rit.summoned
             /\ invocation_count' = rit.counts
             /\ UNCHANGED invocation_history
             /\ IF mcp_registered[w]
                THEN UNCHANGED <<mcp_registered, registered_tools>>
                ELSE /\ registered_tools' = reg.tools
                     /\ mcp_registered' =
                            [mcp_registered EXCEPT ![w] = reg.success]
             /\ tasks' = safe_create_task(
                            tasks, EmitCoro("summon", w, ~regFails), loop, 0)
             /\ response' =
                    IF regFails
                    THEN Resp("summon", w, 500, "registration_failed", FALSE, 0)
                    ELSE Resp("summon", w, 200, "none", TRUE, 0)

\* invoke_daemon, lines 410-501 and its handlers, lines 503-551: what the
\* call hands back and the counters and histories it leaves
invoke_daemon(w, task, capRaises) ==
    LET res == invoke_tool(registered_tools, w, capRaises)
        num == bump_invocation_count(invocation_count[w])
        unchanged(status, error) ==
            [status |-> status, error |-> error, success |-> FALSE,
             invocation_number |-> 0, mcp_calls |-> 0,
             counts |-> invocation_count, histories |-> invocation_history]
    IN  IF slumbers(is_summoned, w) THEN unchanged(400, "not_summoned")
        ELSE IF ~mcp_registered[w] THEN unchanged(500, "not_registered")
        ELSE IF res.raised THEN unchanged(500, "invocation_failed")
        ELSE [status |-> 200, error |-> "none", success |-> res.success,
              invocation_number |-> num, mcp_calls |-> 1,
              counts |-> [invocation_count EXCEPT ![w] = num],
              histories |-> [invocation_history EXCEPT
                  ![w] = record_invocation(@, task, res.success)]]

\* the event invoke_daemon hands to _safe_create_task, lines 474 / 513 / 537
InvokeEvent(w, out) == EmitCoro("invoke", w, out.status = 200 /\ out.success)

\* DaemonRegistry.invoke_daemon
InvokeDaemon(w, task, loop, capRaises) ==
    LET out == invoke_daemon(w, task, capRaises)
    IN  /\ out.status = 200 => TotalInvocations < MaxInvocations
        /\ invocation_count' = out.counts
        /\ invocation_history' = out.histories
        /\ UNCHANGED <<is_summoned, mcp_registered, registered_tools>>
        /\ tasks' = safe_create_task(tasks, InvokeEvent(w, out), loop, 0)
        /\ response' =
              [Resp("invoke", w, out.status, out.error, out.success,
                    out.invocation_number)
                  EXCEPT !.mcp_calls = out.mcp_calls]

\* DaemonRegistry.banish_daemon
BanishDaemon(w, loop) ==
    IF slumbers(is_summoned, w)
    THEN /\ UNCHANGED registryVars
         /\ tasks' = safe_create_task(tasks, EmitCoro("banish", w, FALSE), loop, 0)
         /\ response' = Resp("banish", w, 400, "not_summoned", FALSE, 0)
    ELSE /\ is_summoned' = [is_summoned EXCEPT ![w] = FALSE]
         /\ IF mcp_registered[w]
            THEN /\ registered_tools' = unregister_tool(registered_tools, w)
                 /\ mcp_registered' = [mcp_registered EXCEPT ![w] = FALSE]
            ELSE UNCHANGED <<mcp_registered, registered_tools>>
         /\ UNCHANGED <<invocation_count, invocation_history>>
         /\ tasks' = safe_create_task(tasks, EmitCoro("banish", w, TRUE), loop, 0)
         /\ response' = [Resp("banish", w, 200, "none", TRUE, 0)
                            EXCEPT !.total_invocations =
                                total_invocations(invocation_history[w])]

----------------------------------------------------------------------------
(* Routing: spells and planner answers the router is driven with *)

\* one answer of the planner capability: nothing usable ("empty": no output,
\* or the capability raised), text that is not JSON ("prose"), JSON that is
\* not an object ("nonobject"), or a JSON object ("object")
Attempt(kind, payload, latency) ==
    [kind |-> kind, payload |-> payload, latency |-> latency]

SpellSummonClaude == <<Lit.summon, Lit.claude>>

Spells ==
    {SpellSummonClaude,
     <<Lit.invoke, Lit.Claude, Lit.to, Lit.write, Lit.code>>,
     <<Lit.claude \o <<",">>, Lit.write, Lit.code>>,
     <<Lit.banish, Lit.gemini>>,
     <<Lit.show, Lit.me, Lit.the, Lit.daemon \o <<"s">> >>,
     <<Lit.summon, Lit.the>>,
     <<Lit.hello, Lit.world>>,
     <<>>}

PayloadSummon ==
    Payload("summon", "claude", TxtSummonAnalytics, <<TxtChannelLink>>,
            TRUE, FALSE, TRUE)
PayloadCodegen ==
    Payload("invoke", "claude", TxtCompileDiagnostics,
            <<TxtInspectLog, TxtReportFindings>>, TRUE, FALSE, TRUE)
PayloadReveal ==
    Payload("reveal", "none", TxtReportFindings, <<TxtReportFindings>>,
            TRUE, FALSE, TRUE)
PayloadShell ==
    Payload("invoke", "gemini", TxtRunShell, <<TxtOpenShell>>,
            TRUE, FALSE, TRUE)
PayloadQuery ==
    Payload("query", "claude", TxtReportFindings, <<TxtReportFindings>>,
            TRUE, FALSE, TRUE)
PayloadNoPlan ==
    Payload("invoke", "gemini", TxtReportFindings, <<>>, TRUE, FALSE, TRUE)

\* latencies of a planner call, in milliseconds
Latencies == {600, 601, 2500, 2501}

AcceptedPayloads == {PayloadSummon, PayloadCodegen, PayloadReveal}
RejectedPayloads == {PayloadShell, PayloadQuery, PayloadNoPlan}
FailureKinds == {"empty", "prose", "nonobject"}

Failed(kind) == Attempt(kind, NoPayload, 600)

\* runs in which the planner yields no usable directive
FallbackRuns ==
    {<<Failed(k1), Failed(k2)>> : k1 \in {"empty"}, k2 \in FailureKinds}
        \cup {<<Attempt("object", pl, 600), Failed("empty")>> :
                pl \in RejectedPayloads}

\* runs in which the first or the second attempt yields a directive
PlannerRuns ==
    {<<Attempt("object", pl, l), Failed("empty")>> :
        pl \in AcceptedPayloads, l \in Latencies}
        \cup {<<Failed(k), Attempt("object", PayloadSummon, l)>> :
                k \in FailureKinds, l \in {600, 601}}
        \cup {<<Failed(k1), Failed(k2)>> :
                k1 \in FailureKinds \ {"empty"}, k2 \in FailureKinds}
        \cup {<<Failed("prose"), Attempt("object", PayloadShell, 600)>>}

\* SpellParser.parse on each spell routed, computed once
ParseTable == [toks \in Spells |-> parse(toks)]

\* what the planner may put under the key "reasoning" of its answer
Reasonings == {"absent", "The user wants analytics.", "Read the log first."}

\* the planner's answers with that key set
WithReasoning(run, reasoning) ==
    [i \in 1..Len(run) |->
        IF run[i].kind = "object"
        THEN [run[i] EXCEPT !.payload.reasoning = reasoning]
        ELSE run[i]]

\* validate_archon_payload on each directive the planner answers with, in
\* fantasy mode and out of it, computed once
ValidateTable ==
    [pl \in {[q EXCEPT !.reasoning = r] :
                q \in AcceptedPayloads \cup RejectedPayloads \cup {NoPayload},
                r \in Reasonings} |->
        [fantasy_mode \in BOOLEAN |-> validate_archon_payload(pl, fantasy_mode)]]

----------------------------------------------------------------------------
(* core/archon_router.py *)

\* latency budgets, in milliseconds
SIMPLE_LATENCY_BUDGET == 600
CODEGEN_LATENCY_BUDGET == 2500

\* a request whose clock is started once, before the first attempt
request_timed_from_first_call(run) ==
    IF run[1].kind = "object"
    THEN [ok |-> TRUE, payload |-> run[1].payload,
          latency |-> run[1].latency, calls |-> 1]
    ELSE IF run[2].kind = "object"
    THEN [ok |-> TRUE, payload |-> run[2].payload,
          latency |-> run[1].latency + run[2].latency, calls |-> 2]
    ELSE [ok |-> FALSE, payload |-> NoPayload, latency |-> 0, calls |-> 2]

\* _request_archon_directive, lines 142-169: up to two attempts; the first
\* JSON object wins, with the latency of the attempt that produced it
request_archon_directive(run) ==
    IF run[1].kind = "object"
    THEN [ok |-> TRUE, payload |-> run[1].payload,
          latency |-> run[1].latency, calls |-> 1]
    ELSE IF run[2].kind = "object"
    THEN [ok |-> TRUE, payload |-> run[2].payload,
          latency |-> run[2].latency, calls |-> 2]
    ELSE [ok |-> FALSE, payload |-> NoPayload, latency |-> 0, calls |-> 2]

\* settings.archon_base_narration (app/config.py, lines 53-55) and the texts
\* of _decision_from_spell_parser, lines 226-229
BaseNarration ==
    "The Archon contemplates your words, divining the optimal course through the code-ether."
HeuristicsNarration ==
    "The Archon contemplates your words, relying on ancient heuristics."
FallbackReasoning == "Fallback spell parser engaged."

\* payload.get("reasoning", "")
get_reasoning(payload) ==
    IF payload.reasoning = "absent" THEN "" ELSE payload.reasoning

\* _decision_from_payload, lines 171-207; the cleaned payload carries no
\* confidence (-1 stands for None), and raw is the cleaned payload itself
decision_from_payload(cleaned) ==
    [intent |-> cleaned.intent,
     target |-> DaemonType(cleaned.daemon),
     task |-> cleaned.task,
     plan |-> cleaned.plan,
     confidence |-> -1,
     fallback_used |-> FALSE,
     source |-> "planner",
     raw_confidence |-> -1,
     parameters |-> IF cleaned.parameters = "absent" THEN "{}"
                    ELSE cleaned.parameters,
     narration |-> IF cleaned.fantasy THEN BaseNarration
                   ELSE get_reasoning(cleaned),
     reasoning |-> get_reasoning(cleaned),
     raw |-> cleaned]

\* a rewriting that puts the explanatory step after the planner's steps
reroute_appends(decision, step) ==
    [decision EXCEPT !.fallback_used = TRUE,
                     !.plan = @ \o <<step>>,
                     !.raw.plan = @ \o <<step>>,
                     !.raw.daemon = "liquidmetal",
                     !.target = "liquidmetal"]

\* lines 243-246 and 248-251: the four assignments of either branch;
\* decision.plan is the list object of raw["plan"], so the inserted step
\* shows in both
reroute(decision, step) ==
    [decision EXCEPT !.fallback_used = TRUE,
                     !.plan = <<step>> \o @,
                     !.raw.plan = <<step>> \o @,
                     !.raw.daemon = "liquidmetal",
                     !.target = "liquidmetal"]

\* a policy that checks the budget again on the decision it has rewritten
apply_latency_policy_rechecked(decision, latency) ==
    LET pass(d) ==
            LET is_codegen == d.intent = "invoke" /\ d.target = "claude"
            IN  IF ~is_codegen /\ latency > SIMPLE_LATENCY_BUDGET
                THEN reroute(d, TxtSimpleBudget)
                ELSE IF is_codegen /\ latency > CODEGEN_LATENCY_BUDGET
                THEN reroute(d, TxtCodegenBudget)
                ELSE d
    IN  pass(pass(decision))

\* a policy that also fires at a latency equal to the budget
apply_latency_policy_inclusive(decision, latency) ==
    LET is_codegen == decision.intent = "invoke" /\ decision.target = "claude"
    IN  IF ~is_codegen /\ latency >= SIMPLE_LATENCY_BUDGET
        THEN reroute(decision, TxtSimpleBudget)
        ELSE IF is_codegen /\ latency >= CODEGEN_LATENCY_BUDGET
        THEN reroute(decision, TxtCodegenBudget)
        ELSE decision

\* _apply_latency_policy, lines 238-251
apply_latency_policy(decision, latency) ==
    LET is_codegen == decision.intent = "invoke" /\ decision.target = "claude"
        simple_spell == ~is_codegen
    IN  IF simple_spell /\ latency > SIMPLE_LATENCY_BUDGET
        THEN reroute(decision, TxtSimpleBudget)
        ELSE IF is_codegen /\ latency > CODEGEN_LATENCY_BUDGET
        THEN reroute(decision, TxtCodegenBudget)
        ELSE decision

\* the confidence _decision_from_spell_parser writes, line 230, in hundredths
FALLBACK_CONFIDENCE == 60

\* ParsedSpell.to_dict, spell_parser.py lines 74-88, without raw_input (the
\* spell text itself); an empty task stands for the absent key
to_dict(parsed) ==
    [action |-> parsed.action, daemon |-> parsed.daemon,
     confidence |-> parsed.confidence, task |-> parsed.task]

\* a fallback decision that passes on the confidence of the matched rule
decision_with_rule_confidence(parsed, fantasy_mode) ==
    [intent |-> parsed.action,
     target |-> DaemonTypeOf(parsed.daemon),
     task |-> parsed.task,
     plan |-> <<>>,
     confidence |-> parsed.confidence,
     fallback_used |-> TRUE,
     source |-> "parser",
     raw_confidence |-> parsed.confidence,
     parameters |-> "{}",
     narration |-> IF fantasy_mode THEN HeuristicsNarration
                   ELSE "parser_fallback",
     reasoning |-> FallbackReasoning,
     raw |-> to_dict(parsed)]

\* _decision_from_spell_parser, lines 209-236, on a spell the parser matched;
\* raw_confidence is the parser's own confidence, kept in decision.raw, and
\* fantasy_mode is what is_fantasy_mode() answers at line 227
decision_from_spell_parser(parsed, fantasy_mode) ==
    [intent |-> parsed.action,
     target |-> DaemonTypeOf(parsed.daemon),
     task |-> parsed.task,
     plan |-> <<>>,
     confidence |-> FALLBACK_CONFIDENCE,
     fallback_used |-> TRUE,
     source |-> "parser",
     raw_confidence |-> parsed.confidence,
     parameters |-> "{}",
     narration |-> IF fantasy_mode THEN HeuristicsNarration
                   ELSE "parser_fallback",
     reasoning |-> FallbackReasoning,
     raw |-> to_dict(parsed)]

\* _generate_decision, lines 106-140: the decision, the audit lines the
\* validator wrote, the route event handed to the loop, and the planner calls.
\* speakRaises: self._audio.speak("archon", "route"), line 133, raises (its
\* loop.create_task does on a closed loop); the handler of line 137 catches
\* it and the parser decides, the route event being with the loop already
generate_decision(toks, run, loop, fantasy_mode, speakRaises) ==
    LET req == request_archon_directive(run)
        val == ValidateTable[req.payload][fantasy_mode]
        planned == apply_latency_policy(decision_from_payload(val.cleaned),
                                        req.latency)
        parsed == ParseTable[toks]
        route_event == IF loop
                       THEN <<EmitCoro("route", planned.target, TRUE)>>
                       ELSE <<>>
        viaParser(planner, audit, calls) ==
            [ok |-> parsed.ok,
             decision |-> IF parsed.ok
                          THEN decision_from_spell_parser(parsed, fantasy_mode)
                          ELSE NoDecision,
             planner |-> planner,
             audit |-> audit, events |-> <<>>, calls |-> calls]
    IN  IF ~(archon_enabled /\ tool_registered)
        THEN viaParser("disabled", <<>>, 0)
        ELSE IF ~req.ok THEN viaParser("no_directive", <<>>, req.calls)
        ELSE IF ~val.ok THEN viaParser("rejected", log_rejection(<<>>, val.reason, req.payload),
                       req.calls)
        ELSE IF speakRaises
        THEN [viaParser("error", <<>>, req.calls) EXCEPT !.events = route_event]
        ELSE [ok |-> TRUE, decision |-> planned, planner |-> "accepted",
              audit |-> <<>>, events |-> route_event, calls |-> req.calls]

\* _execute_decision, lines 253-268, on a decision that names a daemon, and
\* the rest of route_spell
ExecuteDecision(gen, out, loop) ==
    /\ out.status = 200 => TotalInvocations < MaxInvocations
    /\ invocation_count' = out.counts
    /\ invocation_history' = out.histories
    /\ tasks' = safe_create_task(tasks \o gen.events,
                                 InvokeEvent(gen.decision.target, out), loop, 0)
    /\ response' =
          [Resp("route", gen.decision.target, out.status, out.error,
                out.success, out.invocation_number)
              EXCEPT !.mcp_calls = out.mcp_calls,
                     !.decision = gen.decision,
                     !.planner = gen.planner,
                     !.planner_calls = gen.calls]

\* a 422 detail that passes the plan on as it is (as line 266 does)
no_target_detail_bare(plan) == plan

\* _execute_decision, line 256: the plan the 422 of a targetless decision
\* carries
no_target_detail(plan) == IF plan = <<>> THEN <<TxtNoSafePath>> ELSE plan

\* a route that ends before any daemon is invoked
RouteFails(gen, status, error) ==
    /\ UNCHANGED <<invocation_count, invocation_history>>
    /\ tasks' = tasks \o gen.events
    /\ response' = [Resp("route", "none", status, error, FALSE, 0)
                       EXCEPT !.decision = gen.decision,
                              !.planner = gen.planner,
                              !.planner_calls = gen.calls,
                              !.detail = IF error = "no_target"
                                         THEN no_target_detail(gen.decision.plan)
                                         ELSE <<>>]

\* route_spell, lines 77-99
RouteSpell(toks, run, loop, capRaises, speakRaises) ==
    \E gen \in {generate_decision(toks, run, loop, veil_enabled,
                                   speakRaises)} :
        /\ audit_log' = audit_log \o gen.audit
        /\ UNCHANGED <<is_summoned, mcp_registered, registered_tools,
                       archon_enabled, tool_registered, veil_enabled,
                       event_history, fanoutVars>>
        /\ IF ~gen.ok THEN RouteFails(gen, 400, "unparseable")
           ELSE IF gen.decision.target = "none"
           THEN RouteFails(gen, 422, "no_target")
           ELSE \E out \in {invoke_daemon(gen.decision.target,
                                          gen.decision.task, capRaises)} :
                    ExecuteDecision(gen, out, loop)

\* the event loop runs the oldest pending coroutine: ArcaneEventBus.emit,
\* lines 116-132
max_history == 100

\* a bus that, once full, turns the newest event away
emit_drops_newest(history, event) ==
    IF Len(history) >= max_history THEN history ELSE Append(history, event)

emit(history, event) ==
    LET appended == Append(history, event)
    IN  IF Len(appended) > max_history THEN Tail(appended) ELSE appended

\* a fan-out that serves one of the subscribed queues only
fan_out_to_one(qs, subs, event) ==
    IF subs = {} THEN qs
    ELSE [qs EXCEPT ![CHOOSE q \in subs : TRUE] = Append(@, event)]

\* emit, lines 122-127: queue.put(event) for every subscribed queue; the
\* queues are unbounded, so no put fails and none waits
fan_out(qs, subs, event) ==
    [q \in DOMAIN qs |-> IF q \in subs THEN Append(qs[q], event) ELSE qs[q]]

RunTask ==
    /\ tasks # <<>>
    /\ event_history' = emit(event_history, Head(tasks))
    /\ queues' = fan_out(queues, subscribers, Head(tasks))
    /\ tasks' = Tail(tasks)
    /\ UNCHANGED <<registryVars, routerVars, response, subscribers,
                   channelVars, handlers>>

\* veil.set_veil, lines 28-33
SetVeil(enabled) ==
    /\ veil_enabled' = enabled
    /\ UNCHANGED <<registryVars, archon_enabled, tool_registered, audit_log,
                   event_history, tasks, response, fanoutVars>>

----------------------------------------------------------------------------
(* Initial state: module import builds the registry with three dormant     *)
(* daemons, an empty client, an empty bus and the veil drawn; the router   *)
(* registers its tool when the planner is enabled.                         *)

Services(enabled) ==
    /\ is_summoned = [w \in Daemons |-> FALSE]
    /\ invocation_count = [w \in Daemons |-> 0]
    /\ invocation_history = [w \in Daemons |-> <<>>]
    /\ mcp_registered = [w \in Daemons |-> FALSE]
    /\ archon_enabled = enabled
    /\ tool_registered = enabled
    /\ registered_tools = IF enabled THEN {"archon"} ELSE {}
    /\ veil_enabled = TRUE
    /\ audit_log = <<>>
    /\ event_history = <<>>
    /\ tasks = <<>>
    /\ subscribers = {}
    /\ queues = <<>>
    /\ ws_subscribers = [channel \in {} |-> {}]
    /\ ws_queues = {}
    /\ emit_calls = <<>>
    /\ ws_received = [ws \in Sockets |-> <<>>]
    /\ handlers = <<>>

Construct(enabled) ==
    /\ Services(enabled)
    /\ response = InitResponse

\* the shipped settings: archon_enabled defaults to True
Init == Construct(TRUE)

\* archon_enabled as the environment sets it
InitRoute == \E enabled \in BOOLEAN : Construct(enabled)

SummonStep ==
    /\ \E w \in Daemons, loop \in BOOLEAN : Summon(w, loop, FALSE)
    /\ UNCHANGED <<event_history, routerVars, fanoutVars>>

InvokeStep ==
    /\ \E w \in Daemons, task \in Tasks, loop \in BOOLEAN,
          capRaises \in BOOLEAN :
            InvokeDaemon(w, task, loop, capRaises)
    /\ UNCHANGED <<event_history, routerVars, fanoutVars>>

BanishStep ==
    /\ \E w \in Daemons, loop \in BOOLEAN : BanishDaemon(w, loop)
    /\ UNCHANGED <<event_history, routerVars, fanoutVars>>

Next == SummonStep \/ InvokeStep \/ BanishStep

Spec == Init /\ [][Next]_vars

----------------------------------------------------------------------------
(* Properties of the registry, checked under Spec *)

\* C1: summon(W) on a worker that is already summoned always fails with
\* AlreadySummoned (status 400) and leaves W's summoned flag, invocation
\* count and history as they were.
C1_SummonTwiceRejected ==
    [][\A w \in Daemons :
          (is_summoned[w] /\ response'.op = "summon" /\ response'.daemon = w)
              => /\ response'.status = 400
                 /\ response'.error = "already_summoned"
                 /\ is_summoned'[w]
                 /\ invocation_count'[w] = invocation_count[w]
                 /\ invocation_history'[w] = invocation_history[w]]_vars

\* a second summon of claude was rejected after claude had served an invocation
C1_Witness ==
    /\ response.op = "summon"
    /\ response.daemon = "claude"
    /\ response.error = "already_summoned"
    /\ invocation_count["claude"] = 1
    /\ Len(invocation_history["claude"]) = 1

\* C2: invoke on a worker that is not summoned fails with NotSummoned (status
\* 400), never calls the backing capability, and changes neither the
\* invocation count nor the history.
C2_InvokeDormantRejected ==
    [][\A w \in Daemons :
          (~is_summoned[w] /\ response'.op = "invoke" /\ response'.daemon = w)
              => /\ response'.status = 400
                 /\ response'.error = "not_summoned"
                 /\ response'.mcp_calls = 0
                 /\ invocation_count'[w] = invocation_count[w]
                 /\ invocation_history'[w] = invocation_history[w]]_vars

\* an invoke was rejected on a banished gemini that had served before
C2_Witness ==
    /\ response.op = "invoke"
    /\ response.daemon = "gemini"
    /\ response.error = "not_summoned"
    /\ ~is_summoned["gemini"]
    /\ invocation_count["gemini"] = 1
    /\ Len(invocation_history["gemini"]) = 1

\* C3: banish is not idempotent: it succeeds exactly when the worker is
\* summoned and leaves it dormant; on a dormant worker (as after a first
\* banish) it fails with NotSummoned (status 400) and the worker stays dormant.
C3_BanishNotIdempotent ==
    [][\A w \in Daemons :
          (response'.op = "banish" /\ response'.daemon = w)
              => /\ (response'.status = 200) <=> is_summoned[w]
                 /\ ~is_summoned'[w]
                 /\ ~is_summoned[w] =>
                        /\ response'.status = 400
                        /\ response'.error = "not_summoned"
                        /\ UNCHANGED registryVars]_vars

\* a banish of liquidmetal was rejected after liquidmetal had been summoned,
\* had served and had been banished
C3_Witness ==
    /\ response.op = "banish"
    /\ response.daemon = "liquidmetal"
    /\ response.error = "not_summoned"
    /\ ~is_summoned["liquidmetal"]
    /\ Len(invocation_history["liquidmetal"]) = 1

\* C4: right after a successful summon(W), W is summoned and its invocation
\* count is 0, whatever summon/invoke/banish cycles came before.
C4_SummonResetsCount ==
    (response.op = "summon" /\ response.status = 200)
        => /\ is_summoned[response.daemon]
           /\ invocation_count[response.daemon] = 0

\* claude was summoned again after a cycle in which it served two invocations
C4_Witness ==
    /\ response.op = "summon"
    /\ response.status = 200
    /\ response.daemon = "claude"
    /\ Len(invocation_history["claude"]) = 2

\* C5: every invoke on a summoned worker that returns a result increments the
\* invocation count by exactly 1 and appends exactly one record to the
\* history, also when the capability reports success=false; the returned
\* invocation_number is the new count.
C5_InvokeCountsOnce ==
    [][\A w \in Daemons :
          (response'.op = "invoke" /\ response'.daemon = w
              /\ response'.status = 200)
              => /\ is_summoned[w]
                 /\ invocation_count'[w] = invocation_count[w] + 1
                 /\ Len(invocation_history'[w]) = Len(invocation_history[w]) + 1
                 /\ SubSeq(invocation_history'[w], 1, Len(invocation_history[w]))
                        = invocation_history[w]
                 /\ invocation_history'[w][Len(invocation_history'[w])].success
                        = response'.success
                 /\ response'.invocation_number = invocation_count'[w]]_vars

\* claude's second invocation returned a result with success=false
C5_Witness ==
    /\ response.op = "invoke"
    /\ response.daemon = "claude"
    /\ response.status = 200
    /\ ~response.success
    /\ response.invocation_number = 2
    /\ Len(invocation_history["claude"]) = 2

\* C6: when the backing capability raises during an invoke on a summoned
\* worker, invoke returns a result with success=false and never raises.
C6_CapabilityFailureContained ==
    [][\A w \in Daemons, task \in Tasks :
          (/\ response'.op = "invoke" /\ response'.daemon = w
           /\ is_summoned[w] /\ mcp_registered[w]
           /\ \E loop \in BOOLEAN : InvokeDaemon(w, task, loop, TRUE))
              => /\ response'.status = 200
                 /\ response'.error = "none"
                 /\ ~response'.success
                 /\ response'.mcp_calls = 1]_vars

\* gemini's capability raised and the invoke returned success=false
C6_Witness ==
    /\ response.op = "invoke"
    /\ response.daemon = "gemini"
    /\ response.status = 200
    /\ ~response.success
    /\ response.mcp_calls = 1
    /\ is_summoned["gemini"]

\* C7: with an event loop running, every summon, invoke and banish call
\* hands exactly one event of its kind, carrying the call's success flag, to
\* the loop for the bus to append.
C7_EveryCallEmits ==
    [][\A w \in Daemons :
          (\/ Summon(w, TRUE, FALSE)
           \/ \E task \in Tasks, capRaises \in BOOLEAN :
                  InvokeDaemon(w, task, TRUE, capRaises)
           \/ BanishDaemon(w, TRUE))
              => tasks' = Append(tasks, EmitCoro(response'.op, w,
                                                 response'.success))]_vars

----------------------------------------------------------------------------
(* Routing *)

RouteInputs ==
    (Spells \X FallbackRuns) \cup ({SpellSummonClaude} \X PlannerRuns)

\* lasting effects of routing recorded so far
RouteEffects ==
    Len(audit_log) + Len(tasks) + Len(event_history) + TotalInvocations

RouteStep ==
    /\ RouteEffects < MaxRouteEffects
    /\ \E in \in RouteInputs, loop \in BOOLEAN, capRaises \in BOOLEAN :
          RouteSpell(in[1], in[2], loop, capRaises, FALSE)

RunTaskStep == RunTask

SetVeilStep == \E enabled \in BOOLEAN : SetVeil(enabled)

NextRoute ==
    RouteStep \/ SummonStep \/ BanishStep \/ RunTaskStep \/ SetVeilStep

SpecRoute == InitRoute /\ [][NextRoute]_vars

----------------------------------------------------------------------------
(* Properties of routing, checked under SpecRoute *)

\* a planner run that yields nothing; unused when the planner is disabled
NoPlannerRun == <<Failed("empty"), Failed("empty")>>

\* C8: with no planner configured and claude dormant, routing "summon claude"
\* yields a decision with intent summon, target claude and fallback_used, and
\* the route then summons claude successfully, leaving claude summoned.
C8_SummonClaudeSummons ==
    [][(/\ ~archon_enabled
        /\ ~is_summoned["claude"]
        /\ \E loop \in BOOLEAN, capRaises \in BOOLEAN :
              RouteSpell(SpellSummonClaude, NoPlannerRun, loop, capRaises,
                         FALSE))
          => /\ response'.decision.intent = "summon"
             /\ response'.decision.target = "claude"
             /\ response'.decision.fallback_used
             /\ response'.status = 200
             /\ is_summoned'["claude"]]_vars

C11_NoTargetNeverExecuted ==
    [][(/\ response'.op = "route"
        /\ response'.error # "unparseable"
        /\ response'.decision.target = "none")
          => /\ response'.status = 422
             /\ response'.error = "no_target"
             /\ response'.mcp_calls = 0
             /\ response'.detail =
                    (IF response'.decision.plan = <<>> THEN <<TxtNoSafePath>>
                     ELSE response'.decision.plan)
             /\ UNCHANGED registryVars]_vars

\* the parser matched a query spell that names no daemon while gemini was
\* summoned: the route failed with no_target and the default plan
C11_Witness ==
    /\ response.op = "route"
    /\ response.error = "no_target"
    /\ response.decision.intent = "query"
    /\ response.detail = <<TxtNoSafePath>>
    /\ is_summoned["gemini"]

----------------------------------------------------------------------------
(* The latency policy on its own: _apply_latency_policy applied to the
   decisions _decision_from_payload builds from validated directives. *)

\* directives the validator accepts, over every intent and daemon of the
\* schema, with and without parameters
PolicyPayloads ==
    {[Payload(intent, daemon, TxtCompileDiagnostics, plan, TRUE, FALSE, fantasy)
        EXCEPT !.parameters = params] :
        intent \in Intents, daemon \in DaemonNames,
        plan \in {<<TxtChannelLink>>, <<TxtInspectLog, TxtReportFindings>>},
        fantasy \in BOOLEAN, params \in {"absent", "depth=2"}}

\* the decisions built from them, in fantasy mode and out of it
PolicyDecisions ==
    {decision_from_payload(validate_archon_payload(pl, mode).cleaned) :
        pl \in PolicyPayloads, mode \in BOOLEAN}

\* measured latencies, in milliseconds, on both sides of either budget
PolicyLatencies == {0, 599, 600, 601, 2499, 2500, 2501, 9000}

\* a decision and the latency measured for it, before the policy is applied
InitPolicy ==
    /\ Services(TRUE)
    /\ \E decision \in PolicyDecisions, latency \in PolicyLatencies :
           response = [op |-> "decided", before |-> decision,
                       latency |-> latency, after |-> decision]

\* self._apply_latency_policy(decision, latency), line 113
ApplyLatencyPolicy ==
    /\ response.op = "decided"
    /\ response' = [response EXCEPT
           !.op = "apply_latency_policy",
           !.after = apply_latency_policy(response.before, response.latency)]
    /\ UNCHANGED <<registryVars, routerVars, event_history, tasks, fanoutVars>>

NextPolicy == ApplyLatencyPolicy

SpecPolicy == InitPolicy /\ [][NextPolicy]_vars

\* the budget the spec gives a decision: 2.5 s for codegen (invoke on
\* claude), 0.6 s for every other decision
OverBudget(decision, latency) ==
    IF decision.intent = "invoke" /\ decision.target = "claude"
    THEN latency > 2500 ELSE latency > 600

\* C12: the latency override (fallback_used set, target and plan rewritten)
\* is applied exactly when the latency is above 0.6 s for a simple decision
\* and above 2.5 s for a codegen decision; at the budget itself nothing is
\* rewritten.
C12_OverrideIffOverBudget ==
    response.op = "apply_latency_policy" =>
        /\ ~response.before.fallback_used
        /\ response.after.fallback_used
              <=> OverBudget(response.before, response.latency)
        /\ OverBudget(response.before, response.latency)
              => response.after.plan # response.before.plan
        /\ ~OverBudget(response.before, response.latency)
              => response.after = response.before

\* a codegen decision measured at exactly 2.5 s came back as it was, while
\* it is above the simple budget
C12_Witness ==
    /\ response.op = "apply_latency_policy"
    /\ response.before.intent = "invoke"
    /\ response.before.target = "claude"
    /\ response.latency = 2500
    /\ response.after = response.before

\* C13: over budget, the target becomes liquidmetal, fallback_used is set
\* and exactly one explanatory step is put in front of the plan; the earlier
\* steps keep their order, and intent, task and parameters are unchanged.
C13_OverrideRewrites ==
    (/\ response.op = "apply_latency_policy"
     /\ OverBudget(response.before, response.latency))
        => /\ response.after.target = "liquidmetal"
           /\ response.after.fallback_used
           /\ Len(response.after.plan) = Len(response.before.plan) + 1
           /\ Head(response.after.plan) \in {TxtSimpleBudget, TxtCodegenBudget}
           /\ Tail(response.after.plan) = response.before.plan
           /\ response.after.intent = response.before.intent
           /\ response.after.task = response.before.task
           /\ response.after.parameters = response.before.parameters

\* a summon on gemini with two plan steps and parameters, measured at
\* 0.601 s, was rerouted
C13_Witness ==
    /\ response.op = "apply_latency_policy"
    /\ response.before.intent = "summon"
    /\ response.before.target = "gemini"
    /\ response.before.parameters = "depth=2"
    /\ Len(response.before.plan) = 2
    /\ response.latency = 601
    /\ response.after.target = "liquidmetal"
    /\ Len(response.after.plan) = 3

----------------------------------------------------------------------------
(* The validator on its own: validate_archon_payload applied once to a
   payload as the planner may answer it, in fantasy mode or out of it. *)

\* words of plan steps and tasks
Phrases ==
    [restart_shell |->
        <<"R", "E", "S", "T", "A", "R", "T", " ", "T", "H", "E", " ", "S",
        "H", "E", "L", "L">>,
     padded |->
        <<" ", " ", "R", "e", "p", "o", "r", "t", " ", "f", "i", "n", "d",
        "i", "n", "g", "s", " ", " ">>,
     blank |->
        <<" ", " ", " ">>,
     open |->
        <<"O", "p", "e", "n", " ">>,
     copy |->
        <<"C", "o", "p", "y", " ">>,
     to |->
        <<" ", "t", "o", " ">>,
     now |->
        <<" ", "n", "o", "w">>,
     inspect |->
        <<"I", "n", "s", "p", "e", "c", "t", " ">>]

\* paths: POSIX and Windows, the bare root and drive, and one with a blank
Paths ==
    [var_log |->
        <<"/", "v", "a", "r", "/", "l", "o", "g", "/", "a", "p", "p", ".",
        "l", "o", "g">>,
     etc_hosts |->
        <<"/", "e", "t", "c", "/", "h", "o", "s", "t", "s">>,
     win_log |->
        <<"C", ":", "\\", "l", "o", "g", "s", "\\", "a", "p", "p", ".", "t",
        "x", "t">>,
     root |->
        <<"/">>,
     drive |->
        <<"C", ":", "\\">>,
     program_files |->
        <<"C", ":", "\\", "P", "r", "o", "g", "r", "a", "m", " ", "F", "i",
        "l", "e", "s", "\\", "a", "p", "p", "\\", "k", "e", "y", ".", "t",
        "x", "t">>]

\* a plan step as the pieces it is written from: words, and paths whose
\* extent is known from the way the step is put together
Words(text) == [path |-> FALSE, text |-> text]
Path(text) == [path |-> TRUE, text |-> text]

RECURSIVE Assemble(_)
Assemble(pieces) ==
    IF pieces = <<>> THEN <<>>
    ELSE Head(pieces).text \o Assemble(Tail(pieces))

\* the plans of the payloads: without paths, with one and with two, padded
\* with blanks, blank, empty, and naming a shell in mixed and in upper case
ValidatorPlans ==
    {<< <<Words(TxtChannelLink)>> >>,
     << <<Words(Phrases.inspect), Path(Paths.var_log)>>, <<Words(TxtReportFindings)>> >>,
     << <<Words(Phrases.open), Path(Paths.win_log), Words(Phrases.now)>> >>,
     << <<Words(Phrases.copy), Path(Paths.etc_hosts), Words(Phrases.to), Path(Paths.var_log)>> >>,
     << <<Words(Phrases.inspect), Path(Paths.root), Words(Phrases.now)>> >>,
     << <<Words(Phrases.open), Path(Paths.drive)>> >>,
     << <<Words(Phrases.open), Path(Paths.program_files)>> >>,
     << <<Words(Phrases.padded)>> >>,
     << <<Words(Phrases.blank)>> >>,
     <<>>,
     << <<Words(TxtOpenShell)>> >>,
     << <<Words(TxtReportFindings)>>, <<Words(Phrases.restart_shell)>> >>}

ValidatorTasks == {TxtCompileDiagnostics, TxtRunShell, Phrases.restart_shell}

\* the payload and the mode handed to validate_archon_payload, line 51,
\* with the pieces its plan was written from
InitValidator ==
    /\ Services(TRUE)
    /\ \E intent \in {"invoke", "query"}, task \in ValidatorTasks,
          pieces \in ValidatorPlans, has_safety \in BOOLEAN,
          allow_shell \in BOOLEAN, fantasy \in BOOLEAN,
          fantasy_mode \in BOOLEAN :
           response =
               [op |-> "received",
                payload |-> Payload(intent, "gemini", task,
                                    [i \in 1..Len(pieces) |-> Assemble(pieces[i])],
                                    has_safety, allow_shell, fantasy),
                pieces |-> pieces,
                fantasy_mode |-> fantasy_mode,
                result |-> Rejected("none")]

\* validate_archon_payload(payload, fantasy_mode), with the line
\* _log_rejection appends to the audit file on a rejection
Validate ==
    /\ response.op = "received"
    /\ \E result \in {validate_archon_payload(response.payload,
                                              response.fantasy_mode)} :
           /\ response' = [response EXCEPT !.op = "validate",
                                           !.result = result]
           /\ audit_log' = IF result.ok THEN audit_log
                           ELSE log_rejection(audit_log, result.reason,
                                              response.payload)
    /\ UNCHANGED <<registryVars, archon_enabled, tool_registered,
                   veil_enabled, event_history, tasks, fanoutVars>>

NextValidator == Validate

SpecValidator == InitValidator /\ [][NextValidator]_vars

\* the text holds the letters s, h, e, l, l in a row, in either case
NamesShell(text) ==
    \E i \in 1..(Len(text) - 4) :
        /\ text[i] \in {"s", "S"}
        /\ text[i + 1] \in {"h", "H"}
        /\ text[i + 2] \in {"e", "E"}
        /\ text[i + 3] \in {"l", "L"}
        /\ text[i + 4] \in {"l", "L"}

\* the payload forbids shell use and its task or a plan step names a shell
ShellRequested(payload) ==
    /\ payload.has_safety
    /\ ~payload.allow_shell
    /\ \/ NamesShell(payload.task)
       \/ \E i \in 1..Len(payload.plan) : NamesShell(payload.plan[i])

\* the validation failed with the shell policy violation and wrote exactly
\* one line to the audit log
ShellRejection ==
    /\ ~response'.result.ok
    /\ response'.result.reason = "shell_command_disallowed"
    /\ audit_log' = Append(audit_log,
                            [event |-> "REJECTED_PAYLOAD",
                             reason |-> "shell_command_disallowed",
                             payload |-> response'.payload])

\* C14 as stated: every payload with allowShell false that names a shell in
\* its task or plan, in any letter case, fails with the shell policy
\* violation and produces exactly one audit log entry, in either mode.
C14_ShellAlwaysPolicyViolation ==
    [][(response'.op = "validate" /\ ShellRequested(response'.payload))
          => ShellRejection]_vars

\* C14, amended: every payload that satisfies the schema, has allowShell
\* false and names a shell in its task or plan, in any letter case, fails
\* with the shell policy violation and produces exactly one audit log entry,
\* in either mode.
C14_ValidShellPolicyViolation ==
    [][(/\ response'.op = "validate"
        /\ schema_accepts(response'.payload)
        /\ ShellRequested(response'.payload))
          => ShellRejection]_vars

\* out of fantasy mode, a schema-valid payload whose second plan step alone
\* names a shell, in upper case, was rejected with one audit line
C14_Witness ==
    /\ response.op = "validate"
    /\ ~response.fantasy_mode
    /\ schema_accepts(response.payload)
    /\ ~response.payload.allow_shell
    /\ response.payload.task = TxtCompileDiagnostics
    /\ response.payload.plan = <<TxtReportFindings, Phrases.restart_shell>>
    /\ response.result.reason = "shell_command_disallowed"
    /\ Len(audit_log) = 1
    /\ audit_log[1].reason = "shell_command_disallowed"

\* the text holds the start of an absolute POSIX path or of a drive path
HasRawPath(text) ==
    \E i \in 1..Len(text) :
        \/ text[i] = "/"
        \/ /\ i + 2 <= Len(text)
           /\ text[i] \in Letters
           /\ text[i + 1] = ":"
           /\ text[i + 2] = "\\"

\* the step with each of its paths replaced by the redaction marker
RECURSIVE Redacted(_)
Redacted(pieces) ==
    IF pieces = <<>> THEN <<>>
    ELSE (IF Head(pieces).path THEN TxtRedacted ELSE Head(pieces).text)
             \o Redacted(Tail(pieces))

\* C15: a payload that passes validation in strict (fantasy) mode comes back
\* with no raw absolute POSIX path or drive path in any plan step: every
\* path has been replaced by '[path-redacted]'.
C15_StrictPlanHasNoRawPath ==
    (response.op = "validate" /\ response.result.ok /\ response.fantasy_mode)
        => \A i \in 1..Len(response.pieces) :
               /\ ~HasRawPath(response.result.cleaned.plan[i])
               /\ response.result.cleaned.plan[i]
                      = Strip(Redacted(response.pieces[i]), {" "})

\* C16: a payload that passes validation out of strict mode comes back with
\* its validated (trimmed) plan steps unredacted and with style.fantasy
\* false, whatever style.fantasy it carried.
C16_DevModeKeepsPlanDropsFantasy ==
    (response.op = "validate" /\ response.result.ok /\ ~response.fantasy_mode)
        => /\ response.result.cleaned.plan
                 = [i \in 1..Len(response.payload.plan) |->
                       Strip(response.payload.plan[i], {" "})]
           /\ response.result.cleaned.fantasy = FALSE

\* out of strict mode, a payload with style.fantasy true and a drive path in
\* its plan was accepted: the path is still there, fantasy is false
C16_Witness ==
    /\ response.op = "validate"
    /\ ~response.fantasy_mode
    /\ response.result.ok
    /\ response.payload.fantasy
    /\ ~response.result.cleaned.fantasy
    /\ response.payload.plan = <<Phrases.open \o Paths.win_log \o Phrases.now>>
    /\ response.result.cleaned.plan = response.payload.plan

----------------------------------------------------------------------------
(* Two runs of the router on the same spell and the same planner answers:  *)
(* one with the veil drawn and one without, or two that differ only in the *)
(* reasoning the planner put in its answer.                                *)

\* route_spell, lines 81-92: the "archon" object of the response
archon_payload(decision, fantasy_mode) ==
    [narration |-> IF fantasy_mode THEN decision.narration
                   ELSE decision.reasoning,
     reasoning |-> decision.reasoning,
     fallback_used |-> decision.fallback_used,
     chain_of_thought |-> IF decision.source = "planner"
                          THEN decision.raw.plan ELSE decision.plan,
     confidence |-> decision.confidence,
     raw_decision |-> decision.raw,
     dev_mode |-> ~fantasy_mode]

\* a spell and the planner's answers to it, before it is routed
InitCompare ==
    /\ \E enabled \in BOOLEAN : Services(enabled)
    /\ \E toks \in Spells, run \in FallbackRuns \cup PlannerRuns,
          loop \in BOOLEAN :
           response = [op |-> "spell", toks |-> toks, run |-> run,
                       loop |-> loop, fantasy_mode |-> TRUE,
                       first |-> NoDecision, second |-> NoDecision]

\* _generate_decision on the spell with the veil drawn and without it
DecideInBothModes ==
    /\ response.op = "spell"
    /\ \E on \in {generate_decision(response.toks, response.run,
                                    response.loop, TRUE, FALSE)},
          off \in {generate_decision(response.toks, response.run,
                                     response.loop, FALSE, FALSE)} :
           response' = [response EXCEPT !.op = "modes",
                                        !.first = on, !.second = off]
    /\ UNCHANGED <<registryVars, routerVars, event_history, tasks, fanoutVars>>

\* route_spell's archon object for two answers of the planner that differ
\* in their reasoning only
RouteWithReasonings(fantasy_mode, r1, r2) ==
    /\ response.op = "spell"
    /\ \E a \in {generate_decision(response.toks,
                                   WithReasoning(response.run, r1),
                                   response.loop, fantasy_mode, FALSE)},
          b \in {generate_decision(response.toks,
                                   WithReasoning(response.run, r2),
                                   response.loop, fantasy_mode, FALSE)} :
           response' =
               [response EXCEPT
                   !.op = "reasonings",
                   !.fantasy_mode = fantasy_mode,
                   !.first = [ok |-> a.ok, planner |-> a.planner,
                              reasoning |-> r1,
                              archon |-> archon_payload(a.decision, fantasy_mode)],
                   !.second = [ok |-> b.ok, planner |-> b.planner,
                               reasoning |-> r2,
                               archon |-> archon_payload(b.decision, fantasy_mode)]]
    /\ UNCHANGED <<registryVars, routerVars, event_history, tasks, fanoutVars>>

NextCompare ==
    \/ DecideInBothModes
    \/ \E fantasy_mode \in BOOLEAN, r1, r2 \in Reasonings :
           RouteWithReasonings(fantasy_mode, r1, r2)

SpecCompare == InitCompare /\ [][NextCompare]_vars

\* C17: the display mode does not influence routing: for the same spell,
\* the same planner answers and the same latency, the decision's intent,
\* target and fallback_used are the same with fantasy mode on and off.
C17_ModeDoesNotInfluenceRouting ==
    response.op = "modes" =>
        /\ response.first.ok = response.second.ok
        /\ response.first.decision.intent = response.second.decision.intent
        /\ response.first.decision.target = response.second.decision.target
        /\ response.first.decision.fallback_used
              = response.second.decision.fallback_used

\* the planner's codegen directive, whose plan names a path, was accepted in
\* both modes: the plans differ (one is redacted), the routing does not
C17_Witness ==
    /\ response.op = "modes"
    /\ response.first.planner = "accepted"
    /\ response.second.planner = "accepted"
    /\ response.first.decision.plan # response.second.decision.plan
    /\ response.first.decision.intent = "invoke"
    /\ response.first.decision.target = response.second.decision.target

\* C18: in fantasy mode the response never carries the planner's reasoning:
\* two runs that differ only in the reasoning of the planner's answer give
\* the same narration, reasoning and raw_decision, none of them that text.
C18_ReasoningNeverSurfaces ==
    (response.op = "reasonings" /\ response.fantasy_mode) =>
        /\ response.first.ok = response.second.ok
        /\ response.first.archon.narration = response.second.archon.narration
        /\ response.first.archon.reasoning = response.second.archon.reasoning
        /\ response.first.archon.raw_decision
              = response.second.archon.raw_decision
        /\ response.first.archon.narration \notin Reasonings
        /\ response.first.archon.reasoning \notin Reasonings
        /\ response.first.planner = "accepted"
              => response.first.archon.raw_decision.reasoning = "absent"

\* in fantasy mode the planner's directive was accepted in two runs whose
\* reasoning texts differ; both responses show the base narration and an
\* empty reasoning
C18_Witness ==
    /\ response.op = "reasonings"
    /\ response.fantasy_mode
    /\ response.first.planner = "accepted"
    /\ response.first.reasoning = "The user wants analytics."
    /\ response.second.reasoning = "Read the log first."
    /\ response.first.archon.narration = BaseNarration
    /\ response.first.archon.reasoning = ""
    /\ response.first.archon = response.second.archon

----------------------------------------------------------------------------
(* The event bus on its own: events emitted one after the other, and the   *)
(* history read back through get_recent_events and through the HTTP route. *)

\* the n-th ArcaneEvent object handed to emit
ArcaneEvent(n) ==
    [spell_name |-> "route", daemon_name |-> "claude", success |-> TRUE,
     serial |-> n]

\* Python's lst[start:]: a negative start counts from the end, and both
\* ends are clamped to the list
SliceFrom(lst, start) ==
    LET from == IF start < 0
                THEN (IF Len(lst) + start < 0 THEN 0 ELSE Len(lst) + start)
                ELSE (IF start > Len(lst) THEN Len(lst) ELSE start)
    IN  SubSeq(lst, from + 1, Len(lst))

\* get_recent_events, lines 301-302: self._event_history[-count:]
get_recent_events(history, count) == SliceFrom(history, 0 - count)

\* the counts asked for
Counts == {0, 1, 2, 10, 99, 100, 101}

InitBus ==
    /\ Services(TRUE)
    /\ response = [op |-> "init", emitted |-> 0, count |-> 0, result |-> <<>>]

\* await event_bus.emit(event), lines 116-132, for the next event
BusEmit ==
    /\ response.emitted < MaxEmits
    /\ event_history' = emit(event_history, ArcaneEvent(response.emitted + 1))
    /\ queues' = fan_out(queues, subscribers, ArcaneEvent(response.emitted + 1))
    /\ response' = [op |-> "emit", emitted |-> response.emitted + 1,
                    count |-> 0, result |-> <<>>]
    /\ UNCHANGED <<registryVars, routerVars, tasks, subscribers, channelVars,
                   handlers>>

\* event_bus.get_recent_events(count)
GetRecentEvents(count) ==
    /\ response' = [op |-> "get_recent_events", emitted |-> response.emitted,
                    count |-> count,
                    result |-> get_recent_events(event_history, count)]
    /\ UNCHANGED <<registryVars, routerVars, event_history, tasks, fanoutVars>>

\* GET /events/recent?count=..., websocket_routes.py lines 84-107
RecentRoute(count) ==
    /\ response' = [op |-> "events/recent", emitted |-> response.emitted,
                    count |-> count,
                    result |-> get_recent_events(event_history,
                                  IF count < 100 THEN count ELSE 100)]
    /\ UNCHANGED <<registryVars, routerVars, event_history, tasks, fanoutVars>>

NextBus ==
    \/ BusEmit
    \/ \E count \in Counts : GetRecentEvents(count)
    \/ \E count \in Counts : RecentRoute(count)

SpecBus == InitBus /\ [][NextBus]_vars

\* C19: the history never holds more than capacity (100) events; after
\* capacity + k emits it holds exactly the last 100 events in emission
\* order, the oldest k evicted first.
C19_HistoryIsLastCapacityEvents ==
    LET n == response.emitted
        size == IF n < 100 THEN n ELSE 100
    IN  /\ Len(event_history) = size
        /\ \A i \in 1..size : event_history[i] = ArcaneEvent(n - size + i)

\* 102 events were emitted: the history holds the events 3 to 102
C19_Witness ==
    /\ response.op = "emit"
    /\ response.emitted = 102
    /\ Len(event_history) = 100
    /\ event_history[1] = ArcaneEvent(3)
    /\ event_history[100] = ArcaneEvent(102)

\* C20: recent(n) returns the min(n, history size) most recent events,
\* oldest first, for every n >= 0; it never returns more than n events, so
\* recent(0) is empty.
C20_RecentReturnsAtMostN ==
    response.op \in {"get_recent_events", "events/recent"} =>
        LET size == IF response.count < Len(event_history)
                    THEN response.count ELSE Len(event_history)
        IN  /\ Len(response.result) = size
            /\ Len(response.result) <= response.count
            /\ \A i \in 1..size :
                   response.result[i]
                       = event_history[Len(event_history) - size + i]

----------------------------------------------------------------------------
(* Fan-out of the core event bus: queues subscribe and unsubscribe while   *)
(* events are emitted. A queue is known by the order of its creation.      *)

\* a subscribe that fills the new queue with the history
subscribe_replays(qs, history) == Append(qs, history)

\* subscribe, line 70: queue = asyncio.Queue()
new_queue(qs, history) == Append(qs, <<>>)

\* queue = await event_bus.subscribe(), lines 69-73
Subscribe ==
    /\ Len(queues) < MaxQueues
    /\ queues' = new_queue(queues, event_history)
    /\ subscribers' = subscribers \cup {Len(queues) + 1}
    /\ response' = [response EXCEPT !.op = "subscribe",
                                    !.count = Len(queues) + 1]
    /\ UNCHANGED <<registryVars, routerVars, event_history, tasks, channelVars,
                   handlers>>

\* await event_bus.unsubscribe(queue), lines 75-77
Unsubscribe(queue) ==
    /\ subscribers' = subscribers \ {queue}
    /\ response' = [response EXCEPT !.op = "unsubscribe", !.count = queue]
    /\ UNCHANGED <<registryVars, routerVars, event_history, tasks, queues,
                   channelVars, handlers>>

NextFanout ==
    \/ response.emitted < MaxFanoutEmits /\ BusEmit
    \/ Subscribe
    \/ \E queue \in 1..Len(queues) : Unsubscribe(queue)

SpecFanout == InitBus /\ [][NextFanout]_vars

\* C21: every queue subscribed at the time of an emit receives that event
\* exactly once, and the order of a queue equals the order of those events
\* in the history.
C21_SubscribersReceiveOnceInOrder ==
    [][response'.op = "emit" =>
          \A queue \in 1..Len(queues) :
              /\ queue \in subscribers
                    => /\ queues'[queue]
                             = Append(queues[queue],
                                      event_history'[Len(event_history')])
                       /\ \E from \in 1..(Len(event_history') + 1) :
                              queues'[queue]
                                  = SubSeq(event_history', from,
                                           Len(event_history'))]_vars

\* two queues, subscribed one emit apart, after three emits
C21_Witness ==
    /\ response.op = "emit"
    /\ response.emitted = 3
    /\ subscribers = {1, 2}
    /\ Len(queues[1]) = 2
    /\ Len(queues[2]) = 1
    /\ queues[1] = <<ArcaneEvent(2), ArcaneEvent(3)>>

\* C22: a queue holds exactly the events emitted between its subscribe and
\* its unsubscribe: it is empty when subscribe returns it, every emit while
\* it is subscribed adds the event, and nothing is added to it once it is
\* unsubscribed.
C22_QueueHoldsSubscribedSpan ==
    [][/\ \A queue \in 1..Len(queues') :
              /\ queue > Len(queues) => queues'[queue] = <<>>
              /\ (queue <= Len(queues) /\ queue \notin subscribers)
                    => queues'[queue] = queues[queue]
              /\ (queue \in subscribers /\ response'.op = "emit")
                    => queues'[queue]
                          = Append(queues[queue], ArcaneEvent(response'.emitted))
              /\ (queue \in subscribers /\ response'.op # "emit")
                    => queues'[queue] = queues[queue]
       /\ response'.op = "unsubscribe" => response'.count \notin subscribers'
       /\ response'.op = "subscribe" => response'.count \in subscribers']_vars

\* a queue subscribed after the first emit and unsubscribed after the
\* second holds the second event alone after the third
C22_Witness ==
    /\ response.op = "emit"
    /\ response.emitted = 3
    /\ Len(queues) >= 1
    /\ 1 \notin subscribers
    /\ queues[1] = <<ArcaneEvent(2)>>

----------------------------------------------------------------------------
(* The channel bus (core/event_bus.py): websockets subscribe to channels   *)
(* and leave them while emit sends a message to the subscribers of one     *)
(* channel. emit gives up the lock before it sends, so other calls run     *)
(* while it waits in send_text.                                            *)

\* a copy of every channel's subscribers
copy_all_subscribers(subs, channel) == UNION {subs[c] : c \in DOMAIN subs}

\* emit, line 73: self._subscribers[channel].copy()
copy_subscribers(subs, channel) == subs[channel]

\* get_channels, line 147, and get_subscriber_count, line 138
get_channels(subs) == DOMAIN subs
get_subscriber_count(subs, channel) ==
    IF channel \in DOMAIN subs THEN Cardinality(subs[channel]) ELSE 0

\* a call of emit: the channel, the websockets still to be sent to, those
\* whose send failed, and how the call ended
EmitCall(channel, pending, status) ==
    [channel |-> channel, subscribers |-> pending, pending |-> pending,
     failed |-> {}, status |-> status, error |-> "none"]

\* subscribe, lines 36-54
ChannelSubscribe(channel, websocket) ==
    /\ IF channel \notin DOMAIN ws_subscribers
       THEN /\ ws_subscribers' =
                   [c \in DOMAIN ws_subscribers \cup {channel} |->
                       IF c = channel THEN {websocket} ELSE ws_subscribers[c]]
            /\ ws_queues' = ws_queues \cup {channel}
       ELSE /\ ws_subscribers' =
                   [ws_subscribers EXCEPT ![channel] = @ \cup {websocket}]
            /\ UNCHANGED ws_queues
    /\ UNCHANGED <<registryVars, routerVars, event_history, tasks, response,
                   subscribers, queues, handlers, emit_calls, ws_received>>

\* unsubscribe, lines 106-126
ChannelUnsubscribe(channel, websocket) ==
    /\ IF channel \in DOMAIN ws_subscribers
       THEN IF ws_subscribers[channel] \ {websocket} = {}
            THEN /\ ws_subscribers' =
                        [c \in DOMAIN ws_subscribers \ {channel} |->
                            ws_subscribers[c]]
                 /\ ws_queues' = ws_queues \ {channel}
            ELSE /\ ws_subscribers' =
                        [ws_subscribers EXCEPT ![channel] = @ \ {websocket}]
                 /\ UNCHANGED ws_queues
       ELSE UNCHANGED <<ws_subscribers, ws_queues>>
    /\ UNCHANGED <<registryVars, routerVars, event_history, tasks, response,
                   subscribers, queues, handlers, emit_calls, ws_received>>

\* emit, lines 56-90: from the call to the first send_text, or to the
\* return when there is nobody to send to or the message has no JSON form
ChannelEmit(channel, serializable) ==
    /\ Len(emit_calls) < MaxChannelEmits
    /\ emit_calls' =
           Append(emit_calls,
               IF channel \notin DOMAIN ws_subscribers
               THEN EmitCall(channel, {}, "returned")
               ELSE IF copy_subscribers(ws_subscribers, channel) = {}
               THEN EmitCall(channel, {}, "returned")
               ELSE IF ~serializable THEN EmitCall(channel, {}, "returned")
               ELSE EmitCall(channel,
                             copy_subscribers(ws_subscribers, channel),
                             "sending"))
    /\ UNCHANGED <<registryVars, routerVars, event_history, tasks, response,
                   subscribers, queues, handlers, ws_subscribers, ws_queues,
                   ws_received>>

\* a cleanup that leaves the failed websockets subscribed
keep_failed(subs, channel, failed) == subs

\* emit, lines 100-103: the failed websockets are discarded from the
\* channel's set
discard_failed(subs, channel, failed) ==
    [subs EXCEPT ![channel] = @ \ failed]

\* emit, lines 92-104: one send_text, which the websocket takes or fails;
\* after the last one the failed websockets are discarded from
\* self._subscribers[channel], a KeyError when the channel is gone
SendText(call, websocket, fails) ==
    /\ call \in 1..Len(emit_calls)
    /\ emit_calls[call].status = "sending"
    /\ websocket \in emit_calls[call].pending
    /\ LET frame == emit_calls[call]
           pending == frame.pending \ {websocket}
           failed == IF fails THEN frame.failed \cup {websocket}
                     ELSE frame.failed
           gone == frame.channel \notin DOMAIN ws_subscribers
       IN  /\ ws_received' =
                  IF fails THEN ws_received
                  ELSE [ws_received EXCEPT ![websocket] =
                           Append(@, [channel |-> frame.channel, call |-> call])]
           /\ emit_calls' =
                  [emit_calls EXCEPT ![call] =
                      [frame EXCEPT
                          !.pending = pending,
                          !.failed = failed,
                          !.status = IF pending # {} THEN "sending"
                                     ELSE IF failed # {} /\ gone THEN "raised"
                                     ELSE "returned",
                          !.error = IF pending = {} /\ failed # {} /\ gone
                                    THEN "KeyError" ELSE "none"]]
           /\ ws_subscribers' =
                  IF pending = {} /\ failed # {} /\ ~gone
                  THEN discard_failed(ws_subscribers, frame.channel, failed)
                  ELSE ws_subscribers
    /\ UNCHANGED <<registryVars, routerVars, event_history, tasks, response,
                   subscribers, queues, handlers, ws_queues>>

NextChannels ==
    \/ \E channel \in Channels, websocket \in Sockets :
           ChannelSubscribe(channel, websocket)
    \/ \E channel \in Channels, websocket \in Sockets :
           ChannelUnsubscribe(channel, websocket)
    \/ \E channel \in Channels, serializable \in BOOLEAN :
           ChannelEmit(channel, serializable)
    \/ \E call \in 1..Len(emit_calls), websocket \in Sockets, fails \in BOOLEAN :
           SendText(call, websocket, fails)

SpecChannels == Init /\ [][NextChannels]_vars

\* C23: emit never raises to its caller, on either bus, under any
\* interleaving with subscribe and unsubscribe and also when a delivery
\* fails.
C23_EmitNeverRaises ==
    \A call \in 1..Len(emit_calls) : emit_calls[call].status # "raised"

\* C25: a channel message is delivered only to websockets subscribed to the
\* channel it was emitted on: emit takes its receivers from the subscribers
\* the channel has when it is called, and a text is sent only to a receiver
\* of a call on the channel the text belongs to.
C25_ChannelIsolation ==
    [][/\ Len(emit_calls') > Len(emit_calls)
             => LET frame == emit_calls'[Len(emit_calls')]
                IN  /\ frame.pending # {} => frame.channel \in DOMAIN ws_subscribers
                    /\ frame.pending # {}
                          => frame.pending \subseteq ws_subscribers[frame.channel]
       /\ \A call \in 1..Len(emit_calls) :
              emit_calls'[call].pending \subseteq emit_calls[call].pending
       /\ \A websocket \in Sockets :
              ws_received'[websocket] # ws_received[websocket]
                  => \E call \in 1..Len(emit_calls) :
                         /\ websocket \in emit_calls[call].pending
                         /\ ws_received'[websocket] =
                                Append(ws_received[websocket],
                                       [channel |-> emit_calls[call].channel,
                                        call |-> call])]_vars

\* ws1 on "route" and ws2 on "spell": a message emitted on "route" reached
\* ws1 and the call returned, ws2 received nothing
C25_Witness ==
    /\ DOMAIN ws_subscribers = {"route", "spell"}
    /\ ws_subscribers["route"] = {"ws1"}
    /\ ws_subscribers["spell"] = {"ws2"}
    /\ Len(emit_calls) = 1
    /\ emit_calls[1].channel = "route"
    /\ emit_calls[1].status = "returned"
    /\ ws_received["ws1"] = <<[channel |-> "route", call |-> 1]>>
    /\ ws_received["ws2"] = <<>>

\* C26: a channel is listed by get_channels, with a queue entry, if and
\* only if it has at least one subscriber; no state keeps a channel with
\* an empty subscriber set.
C26_ChannelExistsIffSubscribed ==
    \A channel \in Channels :
        /\ channel \in get_channels(ws_subscribers)
              <=> get_subscriber_count(ws_subscribers, channel) > 0
        /\ channel \in ws_queues <=> channel \in get_channels(ws_subscribers)

----------------------------------------------------------------------------
(* Requests on the registry in any order. The handlers of routers/spells.py *)
(* call the registry without awaiting anything, so a request runs from its  *)
(* first line to its last before the event loop takes up the next one.      *)

\* C24: per-worker updates are never lost: in any interleaving of invoke,
\* summon and banish requests, an invoke that returns a result adds exactly
\* one to the worker's invocation count and exactly one record to its
\* history, and no other request takes either away (a summon of the worker
\* sets its count to zero).
C24_NoLostUpdates ==
    [][\A w \in Daemons :
          IF response'.op = "invoke" /\ response'.daemon = w
                /\ response'.status = 200
          THEN /\ invocation_count'[w] = invocation_count[w] + 1
               /\ Len(invocation_history'[w]) = Len(invocation_history[w]) + 1
               /\ \A i \in 1..Len(invocation_history[w]) :
                      invocation_history'[w][i] = invocation_history[w][i]
          ELSE /\ invocation_history'[w] = invocation_history[w]
               /\ \/ invocation_count'[w] = invocation_count[w]
                  \/ /\ response'.op = "summon"
                     /\ response'.daemon = w
                     /\ invocation_count'[w] = 0]_vars

\* claude's second invoke returned after requests on gemini had been served
\* in between: both invokes are counted and recorded
C24_Witness ==
    /\ response.op = "invoke"
    /\ response.daemon = "claude"
    /\ response.status = 200
    /\ is_summoned["gemini"]
    /\ invocation_count["claude"] = 2
    /\ Len(invocation_history["claude"]) = 2

----------------------------------------------------------------------------
(* SpellParser.parse on spells that several patterns match *)

\* a spell is a verb phrase, a name and a tail, separated by blanks
ParserHeads ==
    {<<>>, <<Lit.invoke>>, <<Lit.ask>>, <<Lit.tell>>, <<Lit.summon>>,
     <<Lit.banish>>, <<Lit.status, Lit.of>>, <<Lit.check>>, <<Lit.show>>,
     <<Lit.list>>, <<Lit.claude \o <<",">>, Lit.invoke>>}
ParserNames ==
    {<<Lit.claude>>, <<Lit.Claude>>, <<Lit.oracle>>,
     <<Lit.daemon \o <<"s">>>>, <<Lit.the, Lit.gemini>>}
ParserTails ==
    {<<>>,
     <<Lit.to, Lit.summon, Lit.gemini>>,
     <<Lit.to, Lit.banish, Lit.gemini>>,
     <<Lit.for, Lit.code>>,
     <<Lit.to, Lit.tell, Lit.gemini, Lit.to, Lit.write>>,
     <<Lit.to, Lit.ask, Lit.gemini, Lit.to, Lit.write>>}

\* a caller holds the text of a spell
InitParser ==
    /\ Services(TRUE)
    /\ \E head \in ParserHeads, name \in ParserNames, tail \in ParserTails :
           response = [op |-> "spell", spell |-> head \o name \o tail,
                       result |-> ParseFailure]

\* parser.parse(spell_text)
Parse ==
    /\ response.op = "spell"
    /\ response' = [response EXCEPT !.op = "parse",
                                    !.result = parse(response.spell)]
    /\ UNCHANGED <<registryVars, routerVars, event_history, tasks, fanoutVars>>

NextParser == Parse

SpecParser == InitParser /\ [][NextParser]_vars

\* the registered rules whose pattern matches the spell
MatchingRules(toks) ==
    {i \in DOMAIN RegisteredPatterns : Match(RegisteredPatterns[i], toks).ok}

\* rule i wins over rule j: higher priority, or equal priority and
\* registered no later
Outranks(i, j) ==
    \/ RegisteredPatterns[i].priority > RegisteredPatterns[j].priority
    \/ /\ RegisteredPatterns[i].priority = RegisteredPatterns[j].priority
       /\ i <= j

\* C27: parse selects, among all rules whose pattern matches the input, the
\* rule of highest priority, a tie going to the rule registered first; the
\* intent and the captured fields come from that rule only and the
\* confidence is min(1.0, priority / 100) of that rule, here in hundredths.
\* With no matching rule the parse fails.
C27_HighestPriorityRuleWins ==
    response.op = "parse" =>
        LET matching == MatchingRules(response.spell)
            result   == response.result
        IN  IF matching = {} THEN ~result.ok
            ELSE \E i \in matching :
                   /\ \A j \in matching : Outranks(i, j)
                   /\ LET rule == RegisteredPatterns[i]
                          m    == Match(rule, response.spell)
                      IN  /\ result.ok
                          /\ result.rule = rule.id
                          /\ result.action = rule.action
                          /\ result.daemon =
                                 IF m.daemon = <<>> THEN <<>>
                                 ELSE normalize_daemon_name(m.daemon)
                          /\ result.task =
                                 IF m.task = <<>> THEN <<>>
                                 ELSE extract_parameters(m.task)
                          /\ result.confidence =
                                 IF rule.priority >= 100 THEN 100
                                 ELSE rule.priority

\* "claude, invoke the gemini for code": the comma rule (priority 50,
\* registered fifth) and the invoke .. for rule (85, registered sixth) both
\* match, and the later, higher one is chosen
C27_Witness ==
    /\ response.op = "parse"
    /\ {5, 6} \subseteq MatchingRules(response.spell)
    /\ response.result.rule = 6
    /\ response.result.confidence = 85

\* "tell claude to ask gemini to write": the ask and tell rules tie at 95
\* and the ask rule, registered first, is chosen
C27_TieWitness ==
    /\ response.op = "parse"
    /\ Head(response.spell) = Lit.tell
    /\ {2, 3} \subseteq MatchingRules(response.spell)
    /\ response.result.rule = 2

----------------------------------------------------------------------------
(* SpellParser.normalize_daemon_name on names in several letter cases *)

\* str.upper() and str.capitalize() on the characters of the vocabulary
UpperChar(c) ==
    IF \E i \in DOMAIN Lowers : Lowers[i] = c
    THEN Uppers[CHOOSE i \in DOMAIN Lowers : Lowers[i] = c]
    ELSE c
UpperStr(str) == [i \in DOMAIN str |-> UpperChar(str[i])]
Capitalize(str) ==
    [i \in DOMAIN str |-> IF i = 1 THEN UpperChar(str[i]) ELSE str[i]]

\* the aliases of one worker, and all of them
AliasesOf(worker) ==
    UNION {{DAEMON_ALIASES[i].aliases[a] : a \in DOMAIN DAEMON_ALIASES[i].aliases} :
           i \in {k \in DOMAIN DAEMON_ALIASES : DAEMON_ALIASES[k].canonical = worker}}
AllAliases == UNION {AliasesOf(worker) : worker \in Daemons}

\* names that are no alias: some share no piece with any alias, some are a
\* piece of an alias or hold one
OtherNames ==
    {Lit.oracle, Lit.hello, Lit.world, Lit.code,
     <<"m", "e", "t", "a", "l">>, <<"a">>, Lit.logic, Lit.keeper,
     Lit.claude \o <<"t", "t", "e">>}

\* the names handed to the normalization, in three letter cases
NormalizeNames ==
    LET lower == AllAliases \cup OtherNames
    IN  lower \cup {UpperStr(n) : n \in lower} \cup {Capitalize(n) : n \in lower}

\* a caller holds a captured worker name
InitNormalize ==
    /\ Services(TRUE)
    /\ \E name \in NormalizeNames :
           response = [op |-> "name", name |-> name, result |-> <<>>,
                       again |-> <<>>]

\* self.normalize_daemon_name(raw_name)
Normalize ==
    /\ response.op = "name"
    /\ response' = [response EXCEPT
           !.op = "normalize",
           !.result = normalize_daemon_name(response.name)]
    /\ UNCHANGED <<registryVars, routerVars, event_history, tasks, fanoutVars>>

\* self.normalize_daemon_name applied to its own result
NormalizeAgain ==
    /\ response.op = "normalize"
    /\ response' = [response EXCEPT
           !.op = "normalize_again",
           !.again = normalize_daemon_name(response.result)]
    /\ UNCHANGED <<registryVars, routerVars, event_history, tasks, fanoutVars>>

NextNormalize == Normalize \/ NormalizeAgain

SpecNormalize == InitNormalize /\ [][NextNormalize]_vars

\* the lower-cased name is an alias, holds an alias, or is a piece of one
Recognized(lower) ==
    \E alias \in AllAliases :
        \/ alias = lower
        \/ Contains(lower, alias)
        \/ Contains(alias, lower)

C28_PassThroughWitness ==
    /\ response.op = "normalize_again"
    /\ response.name = Capitalize(Lit.oracle)
    /\ response.result = Lit.oracle
    /\ response.again = Lit.oracle

----------------------------------------------------------------------------
(* _request_archon_directive on planners that would answer three times *)

\* the answers a planner call may give, each after its own elapsed time
RequestAnswers ==
    {Attempt(kind, NoPayload, l) : kind \in FailureKinds, l \in {600, 2500}}
        \cup {Attempt("object", pl, l) :
                pl \in {PayloadSummon, PayloadCodegen}, l \in {600, 601, 2501}}

\* what the planner would answer to a first, a second and a third call
RequestRuns ==
    {<<a1, a2, a3>> :
        a1 \in RequestAnswers, a2 \in RequestAnswers,
        a3 \in {Attempt("empty", NoPayload, 600),
                Attempt("object", PayloadSummon, 600)}}

\* a spell is about to be routed to a planner with these answers
InitRequest ==
    /\ Services(TRUE)
    /\ \E run \in RequestRuns :
           response = [op |-> "run", run |-> run,
                       req |-> request_archon_directive(<<Attempt("empty", NoPayload, 0),
                                                          Attempt("empty", NoPayload, 0)>>),
                       planner |-> "none", decision |-> NoDecision]

\* _generate_decision, lines 106-140, with the answer of
\* _request_archon_directive kept beside the decision
GenerateDecision ==
    /\ response.op = "run"
    /\ \E gen \in {generate_decision(SpellSummonClaude, response.run, FALSE,
                                     veil_enabled, FALSE)} :
           response' = [response EXCEPT
               !.op = "generate_decision",
               !.req = request_archon_directive(response.run),
               !.planner = gen.planner,
               !.decision = gen.decision]
    /\ UNCHANGED <<registryVars, routerVars, event_history, tasks, fanoutVars>>

NextRequest == GenerateDecision

SpecRequest == InitRequest /\ [][NextRequest]_vars

\* C29: per route call the planner is called at most twice, one call after
\* the other: a second call is made exactly when the first returned empty,
\* non-JSON or non-object output, a third answer is never asked for, and
\* the directive and the latency handed to the latency policy are those of
\* the attempt that succeeded, the time of a failed first attempt not
\* counted.
C29_AtMostTwoCallsLatencyOfSuccess ==
    response.op = "generate_decision" =>
        LET run == response.run
            req == response.req
        IN  /\ req.calls \in {1, 2}
            /\ req.calls = 2 <=> run[1].kind \in FailureKinds
            /\ req.ok <=> run[req.calls].kind = "object"
            /\ req.ok =>
                   /\ req.payload = run[req.calls].payload
                   /\ req.latency = run[req.calls].latency
                   /\ response.planner = "accepted"
                   /\ response.decision.fallback_used <=>
                          OverBudget([intent |-> req.payload.intent,
                                      target |-> DaemonType(req.payload.daemon)],
                                     run[req.calls].latency)
            /\ ~req.ok => response.planner = "no_directive"

\* the first call took 2.5 s and returned prose, the second took 0.6 s and
\* returned a summon directive: two calls, latency 0.6 s, no override
C29_Witness ==
    /\ response.op = "generate_decision"
    /\ response.run[1] = Attempt("prose", NoPayload, 2500)
    /\ response.run[2] = Attempt("object", PayloadSummon, 600)
    /\ response.req.calls = 2
    /\ response.req.latency = 600
    /\ response.planner = "accepted"
    /\ ~response.decision.fallback_used

\* both calls failed and the planner would have answered a third: the
\* request ends after two calls and the parser decides
C29_NoThirdCallWitness ==
    /\ response.op = "generate_decision"
    /\ response.run[3].kind = "object"
    /\ ~response.req.ok
    /\ response.req.calls = 2
    /\ response.planner = "no_directive"
    /\ response.decision.source = "parser"

\* the plan entries the latency policy writes
LatencySteps == {TxtSimpleBudget, TxtCodegenBudget}

\* how many entries of the plan explain a latency override
LatencyEntries(plan) == Cardinality({i \in DOMAIN plan : plan[i] \in LatencySteps})

\* C30: within one route call the latency policy is applied at most once to
\* the planner's directive: the plan gains at most one latency entry (one
\* when the override fired, at its head, none otherwise) and nothing else,
\* the target is either the planner's or, after the one override, the
\* fallback worker, and the rewritten decision is not checked against a
\* budget again.
C30_PolicyAppliedAtMostOnce ==
    (response.op = "generate_decision" /\ response.planner = "accepted") =>
        LET payload  == response.req.payload
            decision == response.decision
        IN  /\ LatencyEntries(decision.plan) <= 1
            /\ IF decision.fallback_used
               THEN /\ LatencyEntries(decision.plan) = 1
                    /\ Head(decision.plan) \in LatencySteps
                    /\ Len(decision.plan) = Len(payload.plan) + 1
                    /\ decision.target = "liquidmetal"
                    /\ decision.raw.daemon = "liquidmetal"
               ELSE /\ LatencyEntries(decision.plan) = 0
                    /\ Len(decision.plan) = Len(payload.plan)
                    /\ decision.target = DaemonType(payload.daemon)
            /\ decision.raw.plan = decision.plan
            /\ decision.intent = payload.intent

\* a codegen directive came after 2.501 s: it was handed to liquidmetal
\* with one entry added, although the rewritten decision (now a simple one,
\* over the 0.6 s budget) would be over budget again
C30_Witness ==
    /\ response.op = "generate_decision"
    /\ response.planner = "accepted"
    /\ response.req.payload = PayloadCodegen
    /\ response.req.latency = 2501
    /\ response.decision.fallback_used
    /\ response.decision.target = "liquidmetal"
    /\ OverBudget(response.decision, response.req.latency)
    /\ LatencyEntries(response.decision.plan) = 1

----------------------------------------------------------------------------
(* The audit sink of the validator *)

\* C31: every rejection by validate, for a schema violation or for a policy
\* violation, appends exactly one REJECTED_PAYLOAD entry holding the reason
\* and the payload as received, in the step that hands the error to the
\* caller; a payload that validates appends nothing.
C31_RejectionLoggedOnce ==
    [][response'.op = "validate" =>
          IF response'.result.ok
          THEN audit_log' = audit_log
          ELSE /\ response'.result.reason \in
                      {"schema_validation_error", "shell_command_disallowed"}
               /\ Len(audit_log') = Len(audit_log) + 1
               /\ SubSeq(audit_log', 1, Len(audit_log)) = audit_log
               /\ audit_log'[Len(audit_log')] =
                      [event |-> "REJECTED_PAYLOAD",
                       reason |-> response'.result.reason,
                       payload |-> response.payload]]_vars

\* a payload the schema turns away (intent "query") was rejected and the one
\* audit entry holds it as it was received
C31_Witness ==
    /\ response.op = "validate"
    /\ response.payload.intent = "query"
    /\ ~response.result.ok
    /\ response.result.reason = "schema_validation_error"
    /\ Len(audit_log) = 1
    /\ audit_log[1].payload = response.payload

\* a payload that validates left the audit sink empty
C31_AcceptedWitness ==
    /\ response.op = "validate"
    /\ response.result.ok
    /\ audit_log = <<>>

----------------------------------------------------------------------------
(* Failed sends on the channel bus *)

\* C32: when an emit of the channel bus ends, a websocket whose send failed
\* during it is not in the channel's subscriber set, and every other
\* websocket the emit found subscribed has received the message of that
\* emit.
C32_FailedRemovedOthersServed ==
    [][\A call \in 1..Len(emit_calls) :
          (emit_calls[call].status = "sending"
              /\ emit_calls'[call].status # "sending") =>
              LET frame == emit_calls'[call]
              IN  /\ \A websocket \in frame.failed :
                         frame.channel \in DOMAIN ws_subscribers' =>
                             websocket \notin ws_subscribers'[frame.channel]
                  /\ \A websocket \in frame.subscribers \ frame.failed :
                         \E i \in DOMAIN ws_received'[websocket] :
                             ws_received'[websocket][i] =
                                 [channel |-> frame.channel, call |-> call]]_vars

\* both websockets were subscribed to "route"; the send to ws1 failed, ws2
\* received the message, and on return only ws2 is subscribed
C32_Witness ==
    /\ Len(emit_calls) = 1
    /\ emit_calls[1].channel = "route"
    /\ emit_calls[1].subscribers = {"ws1", "ws2"}
    /\ emit_calls[1].failed = {"ws1"}
    /\ emit_calls[1].status = "returned"
    /\ ws_received["ws2"] = <<[channel |-> "route", call |-> 1]>>
    /\ "route" \in DOMAIN ws_subscribers
    /\ ws_subscribers["route"] = {"ws2"}

----------------------------------------------------------------------------
(* The registry with a backing client whose register_tool may fail *)

\* summon with register_tool answering True or False (raindrop_client.py,
\* lines 103-126: any exception inside it is caught and False returned)
SummonOrFaultStep ==
    /\ \E w \in Daemons, loop \in BOOLEAN, fault \in BOOLEAN :
           Summon(w, loop, fault)
    /\ UNCHANGED <<event_history, routerVars, fanoutVars>>

NextFault == SummonOrFaultStep \/ InvokeStep \/ BanishStep

SpecFault == Init /\ [][NextFault]_vars

\* C33: in every reachable registry state a summoned worker is registered
\* with the backing client, registered holds exactly when the client has
\* the worker's tool, and no invoke has ended in the "not registered"
\* branch.
C33_SummonedImpliesRegistered ==
    /\ \A w \in Daemons :
           /\ is_summoned[w] => mcp_registered[w]
           /\ mcp_registered[w] <=> w \in registered_tools
    /\ response.error # "not_registered"

\* C34: a summon of a dormant worker that fails, also one that fails
\* because registering the worker with the backing client fails, leaves the
\* worker dormant, so that a later summon is not rejected as already
\* summoned.
C34_FailedSummonLeavesDormant ==
    [][\A w \in Daemons :
          (/\ ~is_summoned[w]
           /\ response'.op = "summon"
           /\ response'.daemon = w
           /\ response'.status # 200) => ~is_summoned'[w]]_vars

----------------------------------------------------------------------------
(* Counters and histories over summon and banish cycles, under Spec *)

\* C35: for every worker in every reachable state the invocation count
\* equals the number of records in its history, and the total_invocations
\* a banish reports equals the worker's invocation count at that moment,
\* over any number of summon and banish cycles.
C35_CountEqualsHistoryLength ==
    /\ \A w \in Daemons :
           invocation_count[w] = Len(invocation_history[w])
    /\ (response.op = "banish" /\ response.status = 200) =>
           response.total_invocations = invocation_count[response.daemon]

----------------------------------------------------------------------------
(* Directives that name no daemon, under SpecRoute *)

\* the decision was built from an accepted directive whose daemon is "none"
\* (intent and task are left as the directive gave them)
FromTargetlessDirective(decision) ==
    \E payload \in AcceptedPayloads :
        /\ payload.daemon = "none"
        /\ decision.intent = payload.intent
        /\ decision.task = payload.task

\* C36: a validated planner directive whose daemon is "none" never results
\* in a worker invocation: the route fails with no_target for it, whatever
\* the measured planner latency.
C36_TargetlessNeverInvoked ==
    [][(/\ response'.op = "route"
        /\ response'.planner = "accepted"
        /\ FromTargetlessDirective(response'.decision))
          => /\ response'.status = 422
             /\ response'.error = "no_target"
             /\ response'.mcp_calls = 0
             /\ UNCHANGED <<invocation_count, invocation_history>>]_vars

----------------------------------------------------------------------------
(* Routing with an audio bus whose speak may raise *)

\* route_spell with self._audio.speak returning or raising
RouteOrSpeakFaultStep ==
    /\ RouteEffects < MaxRouteEffects
    /\ \E in \in RouteInputs, loop \in BOOLEAN, capRaises \in BOOLEAN,
          speakRaises \in BOOLEAN :
          RouteSpell(in[1], in[2], loop, capRaises, speakRaises)

NextAudio ==
    RouteOrSpeakFaultStep \/ SummonStep \/ BanishStep \/ RunTaskStep
        \/ SetVeilStep

SpecAudio == InitRoute /\ [][NextAudio]_vars

\* the route events a step has handed to the loop
NewRouteEvents ==
    {i \in (Len(tasks) + 1)..Len(tasks') : tasks'[i].spell_name = "route"}

\* C37: a route event is emitted only for a request whose returned decision
\* came from the planner, and its daemon is that decision's target after
\* the latency policy ("none" without a target); a request answered through
\* the parser fallback emits no route event.
C37_RouteEventOnlyForPlannerDecision ==
    [][response'.op = "route" =>
          /\ NewRouteEvents # {} =>
                 /\ response'.planner = "accepted"
                 /\ response'.decision.source = "planner"
          /\ \A i \in NewRouteEvents :
                 tasks'[i].daemon_name = response'.decision.target
          /\ response'.decision.source = "parser" => NewRouteEvents = {}]_vars

----------------------------------------------------------------------------
(* Unsubscribing from the channel bus while an emit is sending *)

\* C38: in the channel bus, once unsubscribe(channel, ws) has returned, no
\* message of that channel is sent to ws any more, also when an emit on the
\* channel was in progress when unsubscribe ran.  As long as no send has
\* failed, only unsubscribe takes a websocket out of a channel's set, so a
\* text must go to a websocket that is in the set of the text's channel.
C38_NoSendAfterUnsubscribe ==
    [][(\A call \in 1..Len(emit_calls) : emit_calls[call].failed = {}) =>
          \A websocket \in Sockets :
              Len(ws_received'[websocket]) > Len(ws_received[websocket]) =>
                  LET text == ws_received'[websocket][Len(ws_received'[websocket])]
                  IN  /\ text.channel \in DOMAIN ws_subscribers
                      /\ websocket \in ws_subscribers[text.channel]]_vars

----------------------------------------------------------------------------
(* The /ws/events endpoint: one handler coroutine per connection. The      *)
(* handler subscribes a queue, then forever takes the next event from the  *)
(* queue and sends it to the client; it never reads from the websocket, so *)
(* it learns of a disconnect only when a send raises.                      *)

\* the handler of a connection that has just subscribed its queue: it is
\* about to wait on queue.get() at line 70
Handler ==
    [pc |-> "get", connected |-> TRUE, taken |-> 0, sent |-> 0]

\* websocket_events_endpoint, lines 50-65: accept, the welcome message and
\* queue = await event_bus.subscribe()
EventsConnect ==
    /\ Len(queues) < MaxQueues
    /\ queues' = new_queue(queues, event_history)
    /\ subscribers' = subscribers \cup {Len(queues) + 1}
    /\ handlers' = Append(handlers, Handler)
    /\ UNCHANGED <<registryVars, routerVars, event_history, tasks, response,
                   channelVars>>

\* the client of a handler closes its connection; the handler is not told
ClientDisconnect(queue) ==
    /\ handlers[queue].connected
    /\ handlers' = [handlers EXCEPT ![queue].connected = FALSE]
    /\ UNCHANGED <<registryVars, routerVars, event_history, tasks, response,
                   subscribers, queues, channelVars>>

\* event = await queue.get(), line 70: returns once the queue holds an
\* event the handler has not taken yet
QueueGet(queue) ==
    /\ handlers[queue].pc = "get"
    /\ handlers[queue].taken < Len(queues[queue])
    /\ handlers' = [handlers EXCEPT ![queue].pc = "send",
                                    ![queue].taken = @ + 1]
    /\ UNCHANGED <<registryVars, routerVars, event_history, tasks, response,
                   subscribers, queues, channelVars>>

\* await websocket.send_json(event.to_dict()), line 73: back to line 70
\* when the client is there, the except clauses of lines 75-78 and on to
\* the finally block when it is gone
SendJson(queue) ==
    /\ handlers[queue].pc = "send"
    /\ handlers' =
          IF handlers[queue].connected
          THEN [handlers EXCEPT ![queue].pc = "get", ![queue].sent = @ + 1]
          ELSE [handlers EXCEPT ![queue].pc = "finally"]
    /\ UNCHANGED <<registryVars, routerVars, event_history, tasks, response,
                   subscribers, queues, channelVars>>

\* finally: await event_bus.unsubscribe(queue), lines 79-81
HandlerUnsubscribe(queue) ==
    /\ handlers[queue].pc = "finally"
    /\ subscribers' = subscribers \ {queue}
    /\ handlers' = [handlers EXCEPT ![queue].pc = "done"]
    /\ UNCHANGED <<registryVars, routerVars, event_history, tasks, response,
                   queues, channelVars>>

\* some caller awaits event_bus.emit(event), lines 116-132
HandlerEmit ==
    /\ response.emitted < MaxHandlerEmits
    /\ BusEmit

HandlerStep(queue) ==
    QueueGet(queue) \/ SendJson(queue) \/ HandlerUnsubscribe(queue)

NextEvents ==
    \/ EventsConnect
    \/ HandlerEmit
    \/ \E queue \in 1..Len(handlers) : ClientDisconnect(queue)
    \/ \E queue \in 1..Len(handlers) : QueueGet(queue)
    \/ \E queue \in 1..Len(handlers) : SendJson(queue)
    \/ \E queue \in 1..Len(handlers) : HandlerUnsubscribe(queue)

\* the event loop runs every handler that is ready to run; nothing obliges
\* a client to connect or disconnect, nor anyone to emit
SpecEvents ==
    /\ InitBus
    /\ [][NextEvents]_vars
    /\ \A queue \in 1..MaxQueues :
           WF_vars(queue <= Len(handlers) /\ HandlerStep(queue))

Disconnected(queue) ==
    queue <= Len(handlers) /\ ~handlers[queue].connected

\* C39: every /ws/events client that disconnects is eventually removed
\* from the subscriber set of the event bus, whether or not any further
\* event is emitted after the disconnect.
C39_DisconnectedEventuallyUnsubscribed ==
    \A queue \in 1..MaxQueues :
        Disconnected(queue) ~> (queue \notin subscribers)

\* a disconnected client whose queue holds an event the handler has yet to
\* send is eventually removed
EventAfterDisconnectUnsubscribes ==
    \A queue \in 1..MaxQueues :
        (Disconnected(queue) /\ handlers[queue].taken < Len(queues[queue])
            /\ handlers[queue].pc \in {"get", "send"})
          ~> (queue \notin subscribers)

\* a handler that found its client gone on a send has unsubscribed
HandlerDone ==
    \E queue \in 1..Len(handlers) :
        handlers[queue].pc = "done" /\ queue \notin subscribers

====
